---- MODULE Spec2Model ----
(***************************************************************************)
(* The in-memory catalog of galcat (src/galcat/core.py): a collection of   *)
(* documents, a collection of references, and the query evaluator          *)
(* Database.query_db / _query_manual / _sub_query that filters the         *)
(* collection with a subset of MongoDB's query language; the table of      *)
(* query_table, generate_curation, the Validator (src/galcat/validator.py) *)
(* and the ingestion by load_file_to_db and add_data.                      *)
(*                                                                         *)
(* Python values are tagged pairs <<tag, payload>>:                        *)
(*   <<"str", s>>  <<"num", n>>  <<"bool", b>>  <<"none", 0>>              *)
(*   <<"arr", entries>>   a numpy array of ValueEntry dicts                *)
(*   <<"dict", items>>    a dict as the sequence of its <<key, value>>     *)
(*                        items, in insertion order                        *)
(*   <<"list", elems>>    a Python list                                    *)
(*   <<"numlist", ns>> <<"numarr", ns>>  the samples of a distribution, as *)
(*                        a list and as a numpy array                      *)
(*   <<"quantity", <<v, unit>> >>  an astropy Quantity                     *)
(*   <<"refdoc", r>>      a reference record embedded in place of its key  *)
(* A document and a ValueEntry are functions from field names to tagged    *)
(* values.  A query is the sequence of its <<key, value>> items, a key     *)
(* being the sequence of its tokens ("ra", ".", "value").                  *)
(***************************************************************************)
EXTENDS Integers, Sequences, FiniteSets, TLC

VARIABLES db,           \* self.db: the collection, in order
          references,   \* self.references: the reference collection
          strictTruth,  \* the numpy build: bool() of an empty array raises
          call,         \* the operation in progress, "none" when idle
          ret           \* what the operation in progress returned or raised

vars == <<db, references, strictTruth, call, ret>>

\* Largest number of documents of the collection.
MaxDocs == 2
\* Numbers stored in entries and used in queries are 1..MaxVal.
MaxVal == 2

---------------------------------------------------------------------------
(* Python values *)

Str(s) == <<"str", s>>
Num(n) == <<"num", n>>
Bool(b) == <<"bool", b>>
NoneV == <<"none", 0>>
Arr(es) == <<"arr", es>>
Dict(items) == <<"dict", items>>
List(elems) == <<"list", elems>>

\* dict.get(k): the value, None when the key is missing
Get(d, k) == IF k \in DOMAIN d THEN d[k] ELSE NoneV

\* a == b on scalars of Python: values of different types are unequal
PyEq(a, b) == a[1] = b[1] /\ a[2] = b[2]

\* The names of this model that start with '$' (str.startswith('$')).
DollarNames == {"$or", "$and", "$gt", "$gte", "$lt", "$lte", "$exists", "$ne"}
StartsWithDollar(seg) == seg \in DollarNames

\* key.split('.'): the segments between the "." tokens
RECURSIVE SplitFrom(_, _, _)
SplitFrom(toks, cur, acc) ==
    IF toks = <<>> THEN Append(acc, cur)
    ELSE IF Head(toks) = "." THEN SplitFrom(Tail(toks), "", Append(acc, cur))
    ELSE SplitFrom(Tail(toks), Head(toks), acc)

Split(key) == SplitFrom(key, "", <<>>)

\* Errors: the exception kind and, for a rejected operator, its name.
Err(kind, op) == [kind |-> kind, op |-> op]
NoErr == Err("none", "")
\* RuntimeError('Use of $exists has been rolled back ...')
ExistsErr == Err("RuntimeError", "$exists")
\* RuntimeError('ERROR: {} not yet supported'.format(db_operator))
NotSupported(op) == Err("NotSupported", op)

Ok(res) == [err |-> NoErr, res |-> res]
Raise(e) == [err |-> e, res |-> <<>>]

---------------------------------------------------------------------------
(* Database._sub_query *)

CompareOps == {"$gt", "$gte", "$lt", "$lte"}

\* a > b, a >= b, a < b, a <= b on two numbers
Cmp(op, a, b) ==
    CASE op = "$gt" -> a > b
      [] op = "$gte" -> a >= b
      [] op = "$lt" -> a < b
      [] op = "$lte" -> a <= b

\* Python 3 orders a number only against a number: None > 1 and 'x' > 1 raise
\* TypeError.  (The operands of this model's comparisons are numbers.)
Comparable(a, b) == a[1] = "num" /\ b[1] = "num"

\* elem[key[0]], as the iterable that filter() walks: a missing field is a
\* KeyError, a string field yields its characters, a number is not iterable.
IterField(elem, k) ==
    IF k \notin DOMAIN elem THEN Raise(Err("KeyError", ""))
    ELSE CASE elem[k][1] \in {"arr", "list"} -> Ok(elem[k][2])
           [] elem[k][1] = "str" ->
                \* y.get on a character: AttributeError, unless the string is empty
                IF elem[k][2] = "" THEN Ok(<<>>) ELSE Raise(Err("AttributeError", ""))
           [] OTHER -> Raise(Err("TypeError", ""))

\* list(filter(lambda y: y.get(key[1]) <op> sub_value, elem[key[0]]))
CompareFilter(elem, key, op, sub_value) ==
    LET it == IterField(elem, key[1]) IN
    IF it.err # NoErr THEN it
    ELSE IF it.res = <<>> THEN Ok(<<>>)
    ELSE IF Len(key) < 2 THEN Raise(Err("IndexError", ""))
    ELSE IF \E j \in 1..Len(it.res) : ~Comparable(Get(it.res[j], key[2]), sub_value)
         THEN Raise(Err("TypeError", ""))
    ELSE Ok(SelectSeq(it.res, LAMBDA y : Cmp(op, Get(y, key[2])[2], sub_value[2])))

\* EqualFilter with y[key[1]] in place of y.get(key[1]): an entry without the
\* sub-field raises KeyError.
EqualFilterIndexing(elem, key, value) ==
    LET it == IterField(elem, key[1]) IN
    IF it.err # NoErr THEN it
    ELSE IF it.res = <<>> THEN Ok(<<>>)
    ELSE IF Len(key) < 2 THEN Raise(Err("IndexError", ""))
    ELSE IF \E j \in 1..Len(it.res) : key[2] \notin DOMAIN it.res[j]
         THEN Raise(Err("KeyError", ""))
    ELSE Ok(SelectSeq(it.res, LAMBDA y : PyEq(y[key[2]], value)))

\* list(filter(lambda y: y.get(key[1]) == value, elem[key[0]]))
EqualFilter(elem, key, value) ==
    LET it == IterField(elem, key[1]) IN
    IF it.err # NoErr THEN it
    ELSE IF it.res = <<>> THEN Ok(<<>>)
    ELSE IF Len(key) < 2 THEN Raise(Err("IndexError", ""))
    ELSE Ok(SelectSeq(it.res, LAMBDA y : PyEq(Get(y, key[2]), value)))

\* _sub_query(doc_list, key_list[0]): value is None and key is a string, so
\* the documents that contain the field are kept (line 537).
SubQueryPresence(coll, doc_list, k) ==
    Ok(SelectSeq(doc_list, LAMBDA i : k \in DOMAIN coll[i]))

\* An entry dict compared with a query value by ==: equal only to a dict with
\* the same keys and equal values.
EntryEq(entry, value) ==
    /\ value[1] = "dict"
    /\ {value[2][j][1] : j \in 1..Len(value[2])} = DOMAIN entry
    /\ \A j \in 1..Len(value[2]) : PyEq(entry[value[2][j][1]], value[2][j][2])

\* bool(doc[key[0]] == value) of line 585.  A scalar field compares by value.
\* An array field compares element by element and the truth value of the
\* resulting array is taken: that of its element when it has one, an error
\* when it has several, and for an empty array False or an error, by the
\* numpy build.  (A list-valued query value is only used under a $-key or a
\* dotted key in this model.)
StraightMatch(doc, k, value, strict) ==
    IF k \notin DOMAIN doc THEN [err |-> Err("KeyError", ""), match |-> FALSE]
    ELSE IF doc[k][1] = "arr" THEN
        LET es == doc[k][2] IN
        IF Len(es) = 1 THEN [err |-> NoErr, match |-> EntryEq(es[1], value)]
        ELSE IF Len(es) = 0 /\ ~strict THEN [err |-> NoErr, match |-> FALSE]
        ELSE [err |-> Err("ValueError", ""), match |-> FALSE]
    ELSE [err |-> NoErr,
          match |-> value[1] \in {"str", "num", "bool"} /\ PyEq(doc[k], value)]

\* The first error raised while the elements of a list are processed in order.
FirstErr(outs) ==
    LET bad == {j \in 1..Len(outs) : outs[j].err # NoErr} IN
    IF bad = {} THEN NoErr
    ELSE outs[CHOOSE j \in bad : \A h \in bad : j <= h].err

\* The concatenation of a sequence of sequences.
RECURSIVE Flatten(_)
Flatten(ss) == IF ss = <<>> THEN <<>> ELSE Head(ss) \o Flatten(Tail(ss))

\* The positions 1..n, in order.
Positions(n) == [j \in 1..n |-> j]

\* IndList with the position appended once for every element of temp_list.
IndListPerMatch(outs) ==
    Flatten([j \in 1..Len(outs) |-> [n \in 1..Len(outs[j].res) |-> j]])

\* ind_list (lines 540, 580-581): the position of every element whose
\* temp_list is not empty, once, in order.
IndList(outs) ==
    SelectSeq(Positions(Len(outs)), LAMBDA j : Len(outs[j].res) > 0)

\* doc_list[ind_list]: the elements at the listed positions, in list order.
TakeIndices(doc_list, ind_list) ==
    [n \in 1..Len(ind_list) |-> doc_list[ind_list[n]]]

\* doc_list[ind_list] of line 582, or the first error an element raised.
Indexed(doc_list, outs) ==
    IF FirstErr(outs) # NoErr THEN Raise(FirstErr(outs))
    ELSE Ok(TakeIndices(doc_list, IndList(outs)))

\* The documents kept by the filter of line 585, or the first error raised.
Filtered(doc_list, outs) ==
    IF FirstErr(outs) # NoErr THEN Raise(FirstErr(outs))
    ELSE Ok(TakeIndices(doc_list,
              SelectSeq(Positions(Len(doc_list)), LAMBDA j : outs[j].match)))

\* temp_list of the $or branch once every key of every sub-query was run.
Collected(runs) ==
    IF FirstErr(runs) # NoErr THEN Raise(FirstErr(runs))
    ELSE Ok(Flatten([n \in 1..Len(runs) |-> runs[n].res]))

\* Lines 571-573: the value filter is run when the presence filter kept
\* the element.
RunIfPresent(temp, run) == IF Len(temp.res) > 0 THEN run ELSE temp

RECURSIVE SubQuery(_, _, _, _, _)
RECURSIVE OrTempList(_, _, _, _)

\* ElemTempList with the last operator of a mapping taken in place of the
\* first.
ElemTempListLast(coll, i, key, value, strict) ==
    LET elem == coll[i] IN
    IF value[1] \in {"dict", "list"} THEN
        IF value[1] = "dict" /\ value[2] = <<>> THEN Raise(Err("IndexError", ""))
        ELSE
            LET db_operator == IF value[1] = "list" THEN key[1]
                               ELSE value[2][Len(value[2])][1]
                sub_value == IF value[1] = "list" THEN value
                             ELSE value[2][Len(value[2])][2]
            IN  CASE db_operator \in CompareOps ->
                        CompareFilter(elem, key, db_operator, sub_value)
                  [] db_operator = "$exists" -> Raise(ExistsErr)
                  [] db_operator = "$or" -> OrTempList(coll, i, sub_value, strict)
                  [] OTHER -> Raise(NotSupported(db_operator))
    ELSE EqualFilter(elem, key, value)

\* temp_list of one element of doc_list (lines 542-579)
ElemTempList(coll, i, key, value, strict) ==
    LET elem == coll[i] IN
    IF value[1] \in {"dict", "list"} THEN
        IF value[1] = "dict" /\ value[2] = <<>> THEN Raise(Err("IndexError", ""))
        ELSE
            LET db_operator == IF value[1] = "list" THEN key[1] ELSE value[2][1][1]
                sub_value == IF value[1] = "list" THEN value ELSE value[2][1][2]
            IN  CASE db_operator \in CompareOps ->
                        CompareFilter(elem, key, db_operator, sub_value)
                  [] db_operator = "$exists" -> Raise(ExistsErr)
                  [] db_operator = "$or" -> OrTempList(coll, i, sub_value, strict)
                  [] OTHER -> Raise(NotSupported(db_operator))
    ELSE EqualFilter(elem, key, value)

\* The $or branch (lines 565-575): every key of every sub-query is run
\* against the single element and whatever it returns is added to temp_list.
OrTempList(coll, i, sub_value, strict) ==
    IF sub_value[1] # "list" THEN Raise(Err("TypeError", ""))
    ELSE
        Collected([n \in 1..Len(Flatten(sub_value[2])) |->
            RunIfPresent(
                SubQueryPresence(coll, <<i>>, Split(Flatten(sub_value[2])[n][1])[1]),
                SubQuery(coll, <<i>>, Split(Flatten(sub_value[2])[n][1]),
                         Flatten(sub_value[2])[n][2], strict))])

\* SubQuery with the operator of a mapping checked before the documents are
\* walked: an operator that is not supported is rejected even when no
\* candidate is left.
SubQueryEager(coll, doc_list, key, value, strict) ==
    IF value[1] = "none" THEN
        IF doc_list = <<>> THEN Ok(<<>>) ELSE Raise(Err("TypeError", ""))
    ELSE IF Len(key) > 1 \/ StartsWithDollar(key[1]) THEN
        LET outs == [j \in 1..Len(doc_list) |->
                        ElemTempList(coll, doc_list[j], key, value, strict)]
            db_operator == IF value[1] = "list" THEN key[1]
                           ELSE IF value[1] = "dict" /\ value[2] # <<>>
                           THEN value[2][1][1] ELSE "$or"
        IN  IF db_operator \notin CompareOps \cup {"$or", "$exists"}
            THEN Raise(NotSupported(db_operator))
            ELSE IF db_operator = "$exists" THEN Raise(ExistsErr)
            ELSE IF FirstErr(outs) # NoErr THEN Raise(FirstErr(outs))
            ELSE Ok(TakeIndices(doc_list, IndList(outs)))
    ELSE
        LET outs == [j \in 1..Len(doc_list) |->
                        StraightMatch(coll[doc_list[j]], key[1], value, strict)]
        IN  IF FirstErr(outs) # NoErr THEN Raise(FirstErr(outs))
            ELSE Ok(TakeIndices(doc_list,
                      SelectSeq(Positions(Len(doc_list)), LAMBDA j : outs[j].match)))

\* _sub_query(doc_list, key, value) with key a list of segments.  doc_list is
\* the sequence of the positions, in coll, of the candidate documents.
SubQuery(coll, doc_list, key, value, strict) ==
    IF value[1] = "none" THEN
        \* 'key in new_doc' with a list as key: unhashable
        IF doc_list = <<>> THEN Ok(<<>>) ELSE Raise(Err("TypeError", ""))
    ELSE IF Len(key) > 1 \/ StartsWithDollar(key[1]) THEN
        Indexed(doc_list, [j \in 1..Len(doc_list) |->
                              ElemTempList(coll, doc_list[j], key, value, strict)])
    ELSE
        Filtered(doc_list, [j \in 1..Len(doc_list) |->
                               StraightMatch(coll[doc_list[j]], key[1], value, strict)])

---------------------------------------------------------------------------
(* Database._query_manual, query_reference, query_db *)

\* ManualStep with the value filter run only when more than one candidate
\* holds the field.
ManualStepSkipOne(coll, out_result, key, value, strict) ==
    LET key_list == Split(key) IN
    IF ~StartsWithDollar(key_list[1]) THEN
        LET present == SubQueryPresence(coll, out_result, key_list[1]) IN
        IF Len(present.res) > 1
        THEN SubQuery(coll, present.res, key_list, value, strict)
        ELSE present
    ELSE SubQuery(coll, out_result, key_list, value, strict)

\* Lines 519-521 and 496-497: the value filter is run on the documents the
\* presence filter kept, when it kept one.
FilterPresent(coll, present, key_list, value, strict) ==
    IF Len(present.res) >= 1
    THEN SubQuery(coll, present.res, key_list, value, strict)
    ELSE present

\* One key of the query (lines 516-523): the presence filter, then, when a
\* candidate is left, the value filter; a $-key is run directly.
ManualStep(coll, out_result, key, value, strict) ==
    IF ~StartsWithDollar(Split(key)[1])
    THEN FilterPresent(coll, SubQueryPresence(coll, out_result, Split(key)[1]),
                       Split(key), value, strict)
    ELSE SubQuery(coll, out_result, Split(key), value, strict)

\* QueryManualLoop with every key run on the whole collection instead of on
\* the candidates the keys before it left.
RECURSIVE QueryManualLoopWhole(_, _, _, _)
QueryManualLoopWhole(coll, out_result, items, strict) ==
    IF items = <<>> THEN Ok(out_result)
    ELSE LET step == ManualStep(coll, Positions(Len(coll)), items[1][1], items[1][2], strict) IN
         IF step.err # NoErr THEN step
         ELSE QueryManualLoopWhole(coll, step.res, Tail(items), strict)

RECURSIVE QueryManualLoop(_, _, _, _)

\* The loop goes on with the keys that follow unless the key raised.
ManualRest(coll, step, items, strict) ==
    IF step.err # NoErr THEN step
    ELSE QueryManualLoop(coll, step.res, items, strict)

\* The loop of lines 514-523 over the items of the query, on the candidates
\* out_result.
QueryManualLoop(coll, out_result, items, strict) ==
    IF items = <<>> THEN Ok(out_result)
    ELSE ManualRest(coll, ManualStep(coll, out_result, items[1][1], items[1][2], strict),
                    Tail(items), strict)

\* QueryManual with the empty query taken as matching nothing.
QueryManualEmptyNone(coll, query, strict) ==
    IF query = <<>> THEN Ok(<<>>)
    ELSE QueryManualLoop(coll, Positions(Len(coll)), query, strict)

\* _query_manual(query): the positions in coll of the documents returned
QueryManual(coll, query, strict) ==
    QueryManualLoop(coll, Positions(Len(coll)), query, strict)

\* query_reference(query) on the in-memory references (lines 490-499)
ReferenceStep(refs, result, key, value, strict) ==
    IF ~StartsWithDollar(Split(key)[1])
    THEN FilterPresent(refs, SubQueryPresence(refs, result, Split(key)[1]),
                       Split(key), value, strict)
    ELSE SubQuery(refs, result, Split(key), value, strict)

RECURSIVE QueryReferenceLoop(_, _, _, _)

\* The loop goes on with the keys that follow unless the key raised.
ReferenceRest(refs, step, items, strict) ==
    IF step.err # NoErr THEN step
    ELSE QueryReferenceLoop(refs, step.res, items, strict)

\* The loop of lines 491-499 over the items of the query.
QueryReferenceLoop(refs, result, items, strict) ==
    IF items = <<>> THEN Ok(result)
    ELSE ReferenceRest(refs, ReferenceStep(refs, result, items[1][1], items[1][2], strict),
                       Tail(items), strict)

QueryReference(refs, query, strict) ==
    QueryReferenceLoop(refs, Positions(Len(refs)), query, strict)

\* Truth value of a Python scalar ('if ref_key:')
Truthy(v) ==
    CASE v[1] = "none" -> FALSE
      [] v[1] = "str" -> v[2] # ""
      [] v[1] = "num" -> v[2] # 0
      [] v[1] = "bool" -> v[2]
      [] OTHER -> TRUE

\* The lookup of lines 456-459 for one entry
EntryRef(each_val, refs, strict) ==
    LET ref_key == Get(each_val, "reference") IN
    IF Truthy(ref_key)
    THEN QueryReference(refs, << <<(<<"key">>), ref_key>> >>, strict)
    ELSE Ok(<<>>)

\* Line 460: the reference record found replaces the key
Embedded(each_val, refs, ref) ==
    IF Len(ref.res) > 0
    THEN [each_val EXCEPT !["reference"] = <<"refdoc", refs[ref.res[1]]>>]
    ELSE each_val

\* Lines 456-460 for one entry, its reference looked up.
EmbedEntry(each_val, refs, strict) ==
    Embedded(each_val, refs, EntryRef(each_val, refs, strict))

\* Lines 452-460 for one document of the copied result
EmbedDoc(doc, refs, strict) ==
    [k \in DOMAIN doc |->
        IF doc[k][1] \in {"arr", "list"}
        THEN <<doc[k][1], [i \in 1..Len(doc[k][2]) |-> EmbedEntry(doc[k][2][i], refs, strict)]>>
        ELSE doc[k]]

\* The errors the reference lookups of the documents found raise.  (The
\* lookup compares the 'key' field of a reference with the entry's key, so
\* it only ever raises the ValueError of StraightMatch.)
LookupErrs(found, refs, strict) ==
    UNION { UNION { {EntryRef(found[n][k][2][i], refs, strict).err :
                        i \in 1..Len(found[n][k][2])} :
                    k \in {f \in DOMAIN found[n] : found[n][f][1] \in {"arr", "list"}} } :
            n \in 1..Len(found) }
      \ {NoErr}

\* Lines 449-462 on the result of _query_manual, errs being what the
\* reference lookups of the embedding raise.
QueryDbOf(coll, refs, result, embed_ref, errs, strict) ==
    IF result.err # NoErr THEN [err |-> result.err, idx |-> <<>>, docs |-> <<>>]
    ELSE IF embed_ref /\ errs # {}
    THEN [err |-> CHOOSE e \in errs : TRUE, idx |-> <<>>, docs |-> <<>>]
    ELSE IF embed_ref
    THEN [err |-> NoErr, idx |-> result.res,
          docs |-> [n \in 1..Len(result.res) |->
                       EmbedDoc(coll[result.res[n]], refs, strict)]]
    ELSE [err |-> NoErr, idx |-> result.res,
          docs |-> [n \in 1..Len(result.res) |-> coll[result.res[n]]]]

\* The documents at the positions of a result.
Found(coll, result) == [n \in 1..Len(result.res) |-> coll[result.res[n]]]

\* query_db(query, embed_ref): what it raises (err) or returns: the
\* positions in the collection of the documents returned (idx) and the
\* documents handed to the caller (docs).
QueryDb(coll, refs, query, embed_ref, strict) ==
    QueryDbOf(coll, refs, QueryManual(coll, query, strict), embed_ref,
              IF embed_ref
              THEN LookupErrs(Found(coll, QueryManual(coll, query, strict)), refs, strict)
              ELSE {},
              strict)

\* The collection with the documents of a result embedded where they are
\* stored.
EmbeddedInPlace(coll, refs, out, strict) ==
    IF out.err # NoErr THEN coll
    ELSE [i \in 1..Len(coll) |->
             IF \E n \in 1..Len(out.idx) : out.idx[n] = i
             THEN EmbedDoc(coll[i], refs, strict) ELSE coll[i]]

\* QueryDbStore without the deep copy: the embedding writes to the stored
\* documents.
QueryDbStoreNoCopy(coll, refs, query, embed_ref, strict) ==
    IF embed_ref
    THEN EmbeddedInPlace(coll, refs, QueryDb(coll, refs, query, embed_ref, strict), strict)
    ELSE coll

\* The collection after query_db: the embedding of lines 451-460 writes to
\* the deep copy made at line 450, never to the stored documents.
QueryDbStore(coll, refs, query, embed_ref, strict) == coll

---------------------------------------------------------------------------
(* Database.query_table, generate_curation *)

\* The order in which a document holds its fields (dict order): the
\* identifier first.
FieldOrder == <<"name", "ra", "dec", "fake_quantity">>
Fields(doc) == SelectSeq(FieldOrder, LAMBDA k : k \in DOMAIN doc)

\* The list of samples of a 'distribution', in a JSON document and once
\* loaded (a numpy array of numbers).
NumList(samples) == <<"numlist", samples>>
NumArr(samples) == <<"numarr", samples>>
\* The list of the elements of such an array: numpy floats.
FloatList(samples) == <<"floatlist", samples>>

RECURSIVE Sum(_)
Sum(s) == IF s = <<>> THEN 0 ELSE Head(s) + Sum(Tail(s))

\* _get_values_from_distribution(...)['value']: the mean of the samples.
\* (The samples of this model have an integral mean.)
PdfMean(samples) == Sum(samples) \div Len(samples)

\* The unit strings astropy recognises, of those the model uses.
KnownUnits == {"deg", "kpc"}

\* _store_quantity(val, unit): a Quantity when a unit is given and
\* recognised, the bare value otherwise.
StoreQuantity(val, unit) ==
    IF unit[1] = "str" /\ unit[2] \in KnownUnits
    THEN <<"quantity", <<val, unit[2]>> >>
    ELSE val

\* What one field contributes to a row: an error, nothing, or a cell.
CellErr(kind) == [err |-> Err(kind, ""), present |-> FALSE, value |-> NoneV]
NoCell == [err |-> NoErr, present |-> FALSE, value |-> NoneV]
Cell(v) == [err |-> NoErr, present |-> TRUE, value |-> v]

\* Lines 694-700 and 702-708: the cell made of the selected entry.
EntryCell(entry) ==
    LET unit == Get(entry, "unit") IN
    IF Get(entry, "distribution") # NoneV
    THEN Cell(StoreQuantity(Num(PdfMean(entry["distribution"][2])), unit))
    ELSE IF "value" \notin DOMAIN entry THEN CellErr("KeyError")
    ELSE Cell(StoreQuantity(entry["value"], unit))

\* TableField with the selection of the best == 1 entry taking the first
\* entry when none is flagged.
TableFieldFirst(es, key, curation_dict) ==
    IF Len(es) > 1 THEN
        IF key \in DOMAIN curation_dict
           /\ \E j \in 1..Len(es) : "reference" \notin DOMAIN es[j]
        THEN CellErr("KeyError")
        ELSE
            LET ind == IF key \in DOMAIN curation_dict
                       THEN SelectSeq(es, LAMBDA x :
                                PyEq(x["reference"], curation_dict[key]))
                       ELSE SelectSeq(es, LAMBDA x :
                                PyEq(IF "best" \in DOMAIN x THEN x["best"] ELSE Num(0),
                                     Num(1)))
            IN  IF Len(ind) > 0 THEN EntryCell(ind[1])
                ELSE IF key \in DOMAIN curation_dict THEN NoCell
                ELSE EntryCell(es[1])
    ELSE IF Len(es) = 0 THEN CellErr("IndexError")
    ELSE EntryCell(es[1])

\* TableField with a single entry selected like the entries of a longer
\* field: by the curation, else by its best flag.
TableFieldAlwaysSelect(es, key, curation_dict) ==
    IF Len(es) >= 1 THEN
        IF key \in DOMAIN curation_dict
           /\ \E j \in 1..Len(es) : "reference" \notin DOMAIN es[j]
        THEN CellErr("KeyError")
        ELSE
            LET ind == IF key \in DOMAIN curation_dict
                       THEN SelectSeq(es, LAMBDA x :
                                PyEq(x["reference"], curation_dict[key]))
                       ELSE SelectSeq(es, LAMBDA x :
                                PyEq(IF "best" \in DOMAIN x THEN x["best"] ELSE Num(0),
                                     Num(1)))
            IN  IF Len(ind) > 0 THEN EntryCell(ind[1]) ELSE NoCell
    ELSE CellErr("IndexError")

\* Lines 685-708 for one multi-valued field: the entries es of field key.
\* With several entries the curation, when it names the field, selects by
\* x['reference'] (a KeyError on an entry without one), else the entries
\* with x.get('best', 0) == 1 are selected; the first selected entry makes
\* the cell.  Otherwise val[0] makes the cell.
TableField(es, key, curation_dict) ==
    IF Len(es) > 1 THEN
        IF key \in DOMAIN curation_dict
           /\ \E j \in 1..Len(es) : "reference" \notin DOMAIN es[j]
        THEN CellErr("KeyError")
        ELSE
            LET ind == IF key \in DOMAIN curation_dict
                       THEN SelectSeq(es, LAMBDA x :
                                PyEq(x["reference"], curation_dict[key]))
                       ELSE SelectSeq(es, LAMBDA x :
                                PyEq(IF "best" \in DOMAIN x THEN x["best"] ELSE Num(0),
                                     Num(1)))
            IN  IF Len(ind) > 0 THEN EntryCell(ind[1]) ELSE NoCell
    ELSE IF Len(es) = 0 THEN CellErr("IndexError")
    ELSE EntryCell(es[1])

\* Lines 680-708 for one field of a document of the result.
TableCell(doc, key, curation_dict) ==
    IF doc[key][1] # "arr" THEN Cell(doc[key])
    ELSE TableField(doc[key][2], key, curation_dict)

\* curation_dict of lines 670-674: the curation, overwritten by the selection.
CurationDict(curation, selection) ==
    [k \in DOMAIN curation \cup DOMAIN selection |->
        IF k \in DOMAIN selection THEN selection[k] ELSE curation[k]]

\* out_row of lines 679-708 for a document whose fields raise nothing.
OutRow(doc, curation_dict) ==
    [k \in {f \in DOMAIN doc : TableCell(doc, f, curation_dict).present} |->
        TableCell(doc, k, curation_dict).value]

\* The error the first failing field of the document raises, in field order.
RowErr(doc, curation_dict) ==
    FirstErr([n \in 1..Len(Fields(doc)) |->
                 TableCell(doc, Fields(doc)[n], curation_dict)])

\* The error the first failing document of the result raises, in order.
RowsErr(docs, curation_dict) ==
    FirstErr([n \in 1..Len(docs) |-> [err |-> RowErr(docs[n], curation_dict)]])

\* The loop of lines 676-710 over the documents results of the query.
TableRows(results, curation_dict) ==
    IF results.err # NoErr THEN results
    ELSE IF RowsErr(results.docs, curation_dict) # NoErr
    THEN [err |-> RowsErr(results.docs, curation_dict), idx |-> <<>>, docs |-> <<>>]
    ELSE [err |-> NoErr, idx |-> results.idx,
          docs |-> [n \in 1..Len(results.docs) |->
                       OutRow(results.docs[n], curation_dict)]]

\* query_table(query, curation, selection): the rows tab_data of lines
\* 667-710, one per document of the result, in result order.
QueryTable(coll, refs, query, curation, selection, strict) ==
    TableRows(QueryDb(coll, refs, query, FALSE, strict),
              CurationDict(curation, selection))

\* generate_curation(reference, existing_curation) for one reference key
\* (lines 625-631): every multi-valued field with an entry of that reference
\* is curated to it.
CurationOne(coll, reference, curation) ==
    LET hit == {k \in UNION {DOMAIN coll[i] : i \in 1..Len(coll)} :
                   \E i \in 1..Len(coll) :
                       /\ k \in DOMAIN coll[i]
                       /\ coll[i][k][1] = "arr"
                       /\ \E n \in 1..Len(coll[i][k][2]) :
                              PyEq(Get(coll[i][k][2][n], "reference"), reference)}
    IN  [k \in DOMAIN curation \cup hit |->
            IF k \in hit THEN reference ELSE curation[k]]

\* generate_curation with a list of references (lines 620-623): the list is
\* walked from its last reference to its first, so the first one wins.
RECURSIVE GenerateCuration(_, _, _)
GenerateCuration(coll, reference_list, curation) ==
    IF reference_list = <<>> THEN curation
    ELSE GenerateCuration(coll, SubSeq(reference_list, 1, Len(reference_list) - 1),
             CurationOne(coll, reference_list[Len(reference_list)], curation))

---------------------------------------------------------------------------
(* Validator *)

\* A JSON document handed to add_data or to the Validator is the sequence of
\* its <<field, value>> items, in order; d.get(k) on it:
ItemsGet(items, k) ==
    LET at == {n \in 1..Len(items) : items[n][1] = k} IN
    IF at = {} THEN NoneV ELSE items[CHOOSE n \in at : TRUE][2]

\* The items of a stored document, in field order.
DocItems(doc) == [n \in 1..Len(Fields(doc)) |-> <<Fields(doc)[n], doc[Fields(doc)[n]]>>]

\* The outcome of a check: what it raises, else its verdict and the
\* messages it printed, in order.
Verdict(ok) == [err |-> NoErr, ok |-> ok, said |-> <<>>]
CheckRaise(e) == [err |-> e, ok |-> FALSE, said |-> <<>>]
Saying(ok, said) == [err |-> NoErr, ok |-> ok, said |-> said]

\* A printed message: 'ERROR: {k} has {what}: {about}' of check_values and
\* the 'WARNING: ... new/unmatched object: {about}' of check_exists.
Message(what, k, about) == <<what, k, about>>

\* The message printed when a check failed.
Unless(ok, message) == IF ok THEN <<>> ELSE <<message>>

\* RuntimeError('JSON does not provide a valid name ...') of check_name and
\* RuntimeError('JSON data is missing name information ...') of add_data.
MissingName == Err("RuntimeError", "name")

\* check_references once the reference collection was queried for ref
\* (lines 126-131 of validator.py).
ReferenceKnown(refs, ref, db_ref, ref_check) ==
    IF db_ref.err # NoErr THEN CheckRaise(db_ref.err)
    ELSE IF ~ref_check THEN Verdict(TRUE)
    ELSE Verdict(/\ Len(db_ref.res) > 0
                 /\ PyEq(Get(refs[db_ref.res[1]], "key"), ref))

\* Validator.check_references(elem)
CheckReferences(refs, elem, ref_check, strict) ==
    IF Get(elem, "reference") = NoneV \/ Get(elem, "reference") = Str("")
    THEN Verdict(FALSE)
    ELSE ReferenceKnown(refs, Get(elem, "reference"),
             QueryReference(refs, << <<(<<"key">>), Get(elem, "reference")>> >>, strict),
             ref_check)

\* Validator.check_unit(elem): Quantity(1, unit) accepts the unit
CheckUnit(elem) == elem["unit"][1] = "str" /\ elem["unit"][2] \in KnownUnits

\* The verdict on one entry of field k from its three checks, each failed
\* check with its message.
EntryVerdict(k, elem, has_value, ref_ok, unit_ok) ==
    IF ref_ok.err # NoErr THEN ref_ok
    ELSE Saying(has_value /\ ref_ok.ok /\ unit_ok,
                Unless(has_value, Message("missing values/distribution", k, elem))
                \o Unless(ref_ok.ok,
                          Message("missing references or it does not exist", k, elem))
                \o Unless(unit_ok, Message("invalid units", k, Get(elem, "unit"))))

\* The three checks of one entry (lines 104-115 of validator.py)
CheckEntry(refs, k, elem, ref_check, strict) ==
    EntryVerdict(k, elem,
                 Get(elem, "value") # NoneV \/ Get(elem, "distribution") # NoneV,
                 IF ref_check THEN CheckReferences(refs, elem, ref_check, strict)
                 ELSE Verdict(TRUE),
                 IF Truthy(Get(elem, "unit")) THEN CheckUnit(elem) ELSE TRUE)

\* 'for elem in v' on the value of a field: its entries; a string yields
\* characters (elem.get: AttributeError), a number is not iterable.
IterValue(v) ==
    CASE v[1] \in {"arr", "list"} -> Ok(v[2])
      [] v[1] = "str" /\ v[2] = "" -> Ok(<<>>)
      [] v[1] = "str" -> Raise(Err("AttributeError", ""))
      [] OTHER -> Raise(Err("TypeError", ""))

\* AllOk with the checks stopped at the first one that failed.
AllOkFirstFailure(checks) ==
    IF FirstErr(checks) # NoErr THEN CheckRaise(FirstErr(checks))
    ELSE Saying(\A j \in 1..Len(checks) : checks[j].ok,
                Flatten([j \in 1..Len(checks) |->
                            IF \E h \in 1..(j - 1) : ~checks[h].ok THEN <<>>
                            ELSE checks[j].said]))

\* all(result) over checks made in order: the first error raised, else
\* whether every check passed, and everything the checks printed.
AllOk(checks) ==
    IF FirstErr(checks) # NoErr THEN CheckRaise(FirstErr(checks))
    ELSE Saying(\A j \in 1..Len(checks) : checks[j].ok,
                Flatten([j \in 1..Len(checks) |-> checks[j].said]))

\* The loop of lines 103-115 over the entries es of field k.
CheckField(refs, k, es, ref_check, strict) ==
    IF es.err # NoErr THEN CheckRaise(es.err)
    ELSE AllOk([j \in 1..Len(es.res) |->
                   CheckEntry(refs, k, es.res[j], ref_check, strict)])

\* The items of a document but its identifier (lines 99-100).
DataItems(items) == SelectSeq(items, LAMBDA it : it[1] # "name")

\* Validator.check_values: every entry of every field but the identifier is
\* checked, and the verdicts are and-ed.
CheckValues(refs, items, ref_check, strict) ==
    AllOk([n \in 1..Len(DataItems(items)) |->
              CheckField(refs, DataItems(items)[n][1],
                         IterValue(DataItems(items)[n][2]), ref_check, strict)])

\* check_exists once the collection was queried for the name.
Exists(doc_list, name) ==
    IF doc_list.err # NoErr THEN CheckRaise(doc_list.err)
    ELSE Saying(Len(doc_list.idx) > 0,
                Unless(Len(doc_list.idx) > 0,
                       Message("new/unmatched object", "name", name)))

\* Validator.check_exists(name): a document with that name is stored
CheckExists(coll, refs, name, strict) ==
    Exists(QueryDb(coll, refs, << <<(<<"name">>), name>> >>, FALSE, strict), name)

\* all([exist_check, val_check]) of line 66, check_exists run first.
BothChecks(exist_check, val_check) ==
    IF exist_check.err # NoErr THEN exist_check
    ELSE IF val_check.err # NoErr THEN val_check
    ELSE Saying(exist_check.ok /\ val_check.ok, exist_check.said \o val_check.said)

\* Validator.run_one for data: check_name raises on a missing or empty
\* name; the verdict is that of check_exists and check_values together.
RunOne(coll, refs, items, ref_check, strict) ==
    IF ~Truthy(ItemsGet(items, "name")) THEN CheckRaise(MissingName)
    ELSE BothChecks(CheckExists(coll, refs, ItemsGet(items, "name"), strict),
                    CheckValues(refs, items, ref_check, strict))

\* Validator(database).run(): every stored document is checked, in order
ValidatorRun(coll, refs, ref_check, strict) ==
    AllOk([i \in 1..Len(coll) |->
              RunOne(coll, refs, DocItems(coll[i]), ref_check, strict)])

---------------------------------------------------------------------------
(* Database._recursive_json_fix, load_file_to_db, add_data *)

\* _recursive_json_fix on a value: a list of entries becomes an array of
\* fixed entries, a list of numbers an array of numbers, the rest is kept.
RECURSIVE FixValue(_)
FixValue(v) ==
    CASE v[1] = "list" ->
            Arr([i \in 1..Len(v[2]) |->
                    [f \in DOMAIN v[2][i] |-> FixValue(v[2][i][f])]])
      [] v[1] \in {"numlist", "floatlist"} -> NumArr(v[2])
      [] OTHER -> v

\* _recursive_json_fix(doc) on a document
RecursiveJsonFix(doc) == [k \in DOMAIN doc |-> FixValue(doc[k])]

\* _recursive_json_fix(doc) on the items of a document, in their order
\* (lines 224-234).
JsonFixItems(items) == [n \in 1..Len(items) |-> <<items[n][1], FixValue(items[n][2])>>]

\* ReverseFixValue that does not descend into the entries of an array.
ReverseFixValueShallow(v) ==
    CASE v[1] = "arr" -> List(v[2])
      [] v[1] = "numarr" -> FloatList(v[2])
      [] OTHER -> v

\* _recursive_json_reverse_fix on a value (lines 272-281): an array of
\* entries becomes the list of the reversed entries, an array of numbers the
\* list of its elements, the rest (a list included) is kept.
RECURSIVE ReverseFixValue(_)
ReverseFixValue(v) ==
    CASE v[1] = "arr" ->
            List([i \in 1..Len(v[2]) |->
                     [f \in DOMAIN v[2][i] |-> ReverseFixValue(v[2][i][f])]])
      [] v[1] = "numarr" -> FloatList(v[2])
      [] OTHER -> v

\* _recursive_json_reverse_fix(doc) on the items of a document, in their
\* order.
JsonReverseFixItems(items) ==
    [n \in 1..Len(items) |-> <<items[n][1], ReverseFixValue(items[n][2])>>]

\* The dict of the items (json.load of what json.dumps wrote).
AsDoc(items) ==
    [k \in {items[n][1] : n \in 1..Len(items)} |-> ItemsGet(items, k)]

\* self.db == orig_doc, element by element (lines 160 and 404): the stored
\* dict itself is equal by identity; another dict is compared key by key
\* from its first key on.  A document holds its identifier first and no two
\* stored documents share a name, so the comparison with another document
\* ends at the name, or at a key the other one does not have.
DocEq(doc, orig_doc) == doc = orig_doc

\* The collection after what was done before an error, or after the call.
Stored(coll) == [err |-> NoErr, db |-> coll, notices |-> <<>>]
Noticed(coll, notice) == [err |-> NoErr, db |-> coll, notices |-> <<notice>>]
Failed(e, coll) == [err |-> e, db |-> coll, notices |-> <<>>]

\* doc.get(id_column, '') of line 157.
NameOf(doc) == IF "name" \in DOMAIN doc THEN doc["name"] ELSE Str("")

\* The name query of lines 158, 367 and of check_exists.
NameQuery(name) == << <<(<<"name">>), name>> >>

\* Whether the query of line 158 found a document of that name (line 159).
Matches(coll, orig_doc, name) ==
    Len(orig_doc.idx) > 0 /\ PyEq(coll[orig_doc.idx[1]]["name"], name)

\* Replace with the fields of the new document written over the stored one,
\* the other fields of the stored document kept.
ReplaceMerging(coll, doc, orig_doc) ==
    IF orig_doc.err # NoErr THEN Failed(orig_doc.err, coll)
    ELSE IF Matches(coll, orig_doc, NameOf(doc))
    THEN Stored([i \in 1..Len(coll) |->
                    IF DocEq(coll[i], coll[orig_doc.idx[1]])
                    THEN [k \in DOMAIN coll[i] \cup DOMAIN doc |->
                             IF k \in DOMAIN doc THEN doc[k] ELSE coll[i][k]]
                    ELSE coll[i]])
    ELSE Stored(Append(coll, doc))

\* LoadFileToDb with the fields of the new document written over the stored
\* one, the other fields of the stored document kept.
LoadFileToDbMerge(coll, refs, doc, strict) ==
    ReplaceMerging(coll, RecursiveJsonFix(doc),
        QueryDb(coll, refs, NameQuery(NameOf(RecursiveJsonFix(doc))), FALSE, strict))

\* LoadFileToDb with the new document always appended.
LoadFileToDbAppend(coll, refs, doc, strict) ==
    Stored(Append(coll, RecursiveJsonFix(doc)))

\* Lines 159-163: the stored document orig_doc found under the name of doc
\* is replaced where the collection equals it, else doc is appended.
Replace(coll, doc, orig_doc) ==
    IF orig_doc.err # NoErr THEN Failed(orig_doc.err, coll)
    ELSE IF Matches(coll, orig_doc, NameOf(doc))
    THEN Stored([i \in 1..Len(coll) |->
                    IF DocEq(coll[i], coll[orig_doc.idx[1]]) THEN doc ELSE coll[i]])
    ELSE Stored(Append(coll, doc))

\* load_file_to_db(doc) with a dict-like doc (lines 155-163): the stored
\* document of that name is replaced, else the document is appended.  A
\* document without the identifier is looked up under the name ''.
LoadFileToDb(coll, refs, doc, strict) ==
    Replace(coll, RecursiveJsonFix(doc),
        QueryDb(coll, refs, NameQuery(NameOf(RecursiveJsonFix(doc))), FALSE, strict))

\* What the merge of a field or of a document made of it before it was done
\* or raised.
Merged(val) == [err |-> NoErr, val |-> val]
MergeRaise(e, val) == [err |-> e, val |-> val]

\* MergeEntries with update_value taken as set: the stored entries of the
\* reference are overwritten.
RECURSIVE MergeEntriesUpdating(_, _, _, _)
MergeEntriesUpdating(es, ref_list, v, update_value) ==
    IF v = <<>> THEN Merged(es)
    ELSE IF "reference" \notin DOMAIN Head(v) THEN MergeRaise(Err("KeyError", ""), es)
    ELSE IF \E n \in 1..Len(ref_list) : PyEq(ref_list[n], Head(v)["reference"])
    THEN MergeEntriesUpdating(
             [n \in 1..Len(es) |->
                 IF n <= Len(ref_list) /\ PyEq(ref_list[n], Head(v)["reference"])
                 THEN Head(v) ELSE es[n]],
             ref_list, Tail(v), update_value)
    ELSE MergeEntriesUpdating(Append(es, Head(v)), ref_list, Tail(v), update_value)

\* MergeEntries with update_value taken as unset: an entry of a listed
\* reference is skipped.
RECURSIVE MergeEntriesSkipping(_, _, _, _)
MergeEntriesSkipping(es, ref_list, v, update_value) ==
    IF v = <<>> THEN Merged(es)
    ELSE IF "reference" \notin DOMAIN Head(v) THEN MergeRaise(Err("KeyError", ""), es)
    ELSE IF \E n \in 1..Len(ref_list) : PyEq(ref_list[n], Head(v)["reference"])
    THEN MergeEntriesSkipping(es, ref_list, Tail(v), update_value)
    ELSE MergeEntriesSkipping(Append(es, Head(v)), ref_list, Tail(v), update_value)

\* The loop of lines 383-397 over the new entries v of a field the stored
\* document has: es are its entries so far, ref_list the references it had
\* when the loop began.  An entry of a listed reference overwrites the
\* stored entries of that reference when update_value is set and is skipped
\* otherwise; any other entry is appended.
RECURSIVE MergeEntries(_, _, _, _)
MergeEntries(es, ref_list, v, update_value) ==
    IF v = <<>> THEN Merged(es)
    ELSE IF "reference" \notin DOMAIN Head(v) THEN MergeRaise(Err("KeyError", ""), es)
    ELSE IF \E n \in 1..Len(ref_list) : PyEq(ref_list[n], Head(v)["reference"])
    THEN IF update_value
         THEN MergeEntries(
                  [n \in 1..Len(es) |->
                      IF n <= Len(ref_list) /\ PyEq(ref_list[n], Head(v)["reference"])
                      THEN Head(v) ELSE es[n]],
                  ref_list, Tail(v), update_value)
         ELSE MergeEntries(es, ref_list, Tail(v), update_value)
    ELSE MergeEntries(Append(es, Head(v)), ref_list, Tail(v), update_value)

\* ref_list of line 381: the reference of every stored entry of the field.
RefList(es) == [n \in 1..Len(es) |-> es[n]["reference"]]

\* The stored document with the entries of field k as the merge left them.
WithField(old_doc, k, m) == [err |-> m.err, val |-> [old_doc EXCEPT ![k] = Arr(m.val)]]

\* Lines 377-397 for one field k of the new data, on the stored document.
MergeField(old_doc, k, v, update_value) ==
    IF k \notin DOMAIN old_doc
    THEN \* old_doc[k] = np.array(v)
         Merged([f \in DOMAIN old_doc \cup {k} |->
                    IF f = k THEN Arr(v[2]) ELSE old_doc[f]])
    ELSE IF old_doc[k][1] # "arr" THEN MergeRaise(Err("TypeError", ""), old_doc)
    ELSE IF \E n \in 1..Len(old_doc[k][2]) : "reference" \notin DOMAIN old_doc[k][2][n]
    THEN MergeRaise(Err("KeyError", ""), old_doc)
    ELSE WithField(old_doc, k,
             MergeEntries(old_doc[k][2], RefList(old_doc[k][2]), v[2], update_value))

RECURSIVE MergeItems(_, _, _)

\* The loop goes on with the items that follow unless the field raised.
MergeRest(m, items, update_value) ==
    IF m.err # NoErr THEN m
    ELSE MergeItems(m.val, items, update_value)

\* The loop of lines 373-397 over the items of the new data, in their
\* order.  old_doc is the stored document itself: what was merged before an
\* error stays merged.
MergeItems(old_doc, items, update_value) ==
    IF items = <<>> THEN Merged(old_doc)
    ELSE IF Head(items)[1] = "name" THEN MergeItems(old_doc, Tail(items), update_value)
    ELSE MergeRest(MergeField(old_doc, Head(items)[1], Head(items)[2], update_value),
                   Tail(items), update_value)

\* The collection with the document at position p as the merge m left it.
InPlace(coll, p, m) == [i \in 1..Len(coll) |-> IF i = p THEN m.val ELSE coll[i]]

\* Lines 399-408: the merged document is written where the collection
\* equals it; the merge was done on the stored document, so what it did
\* before raising is kept.
WriteBack(coll, p, m) ==
    IF m.err # NoErr THEN Failed(m.err, InPlace(coll, p, m))
    ELSE Noticed([i \in 1..Len(coll) |->
                     IF DocEq(InPlace(coll, p, m)[i], m.val) THEN m.val
                     ELSE InPlace(coll, p, m)[i]],
                 "has been updated")

\* Lines 354-408 once the validation v and the lookup found of the name
\* were made.
Update(coll, new_data, update_value, validate, v, found) ==
    IF validate /\ v.err # NoErr THEN Failed(v.err, coll)
    ELSE IF validate /\ ~v.ok THEN Noticed(coll, "Failed validation")
    ELSE IF ItemsGet(new_data, "name") = NoneV THEN Failed(MissingName, coll)
    ELSE IF found.err # NoErr THEN Failed(found.err, coll)
    ELSE IF found.idx = <<>> THEN Failed(Err("IndexError", ""), coll)
    ELSE WriteBack(coll, found.idx[1],
                   MergeItems(coll[found.idx[1]], new_data, update_value))

\* A validation with a missing name as a failed check instead of an error.
SoftName(v) == IF v.err = MissingName THEN Verdict(FALSE) ELSE v

\* AddData with the validation run but its verdict not looked at.
AddDataVerdictUnread(coll, refs, new_data, force, update_value, validate, strict) ==
    Update(coll, new_data, update_value, FALSE,
           RunOne(coll, refs, new_data, TRUE, strict),
           QueryDb(coll, refs, NameQuery(ItemsGet(new_data, "name")), FALSE, strict))

\* AddData with a missing name reported by the validation as a failed
\* check instead of raised.
AddDataNameSoft(coll, refs, new_data, force, update_value, validate, strict) ==
    Update(coll, new_data, update_value, validate,
           SoftName(RunOne(coll, refs, new_data, TRUE, strict)),
           QueryDb(coll, refs, NameQuery(ItemsGet(new_data, "name")), FALSE, strict))

\* add_data(new_data, force, update_value, validate) with dict-like data
\* (lines 354-408).  The validation, when asked for, raises on a missing
\* name and ends the call when the data fails it.  The stored document is
\* query_db(...)[0]: an IndexError when no document has the name.  The
\* merge is done on the stored document, which is then written back where
\* the collection equals it.  force is not read.
AddData(coll, refs, new_data, force, update_value, validate, strict) ==
    Update(coll, new_data, update_value, validate,
           RunOne(coll, refs, new_data, TRUE, strict),
           QueryDb(coll, refs, NameQuery(ItemsGet(new_data, "name")), FALSE, strict))

---------------------------------------------------------------------------
(* The documents, references and queries of the model *)

\* The reference collection read from references_file by the constructor.
Refs ==
    << [key |-> Str("Ref1"), bibcode |-> Str("2006MNRAS")],
       [key |-> Str("Ref2"), bibcode |-> Str("2019ApJ")] >>

\* Documents as load_file_to_db stores them: 'name' first, every list of
\* entries a numpy array.  They cover: no multi-valued field, one entry,
\* several entries (with equal and with different values), an entry without
\* 'value', an empty array, a document without 'name', entries with a best
\* flag, a unit (recognised or not) and a distribution.
DocPool ==
    { [name |-> Str("Gal 1"),
       ra |-> Arr(<< [value |-> Num(1), reference |-> Str("Ref1")] >>)],
      [name |-> Str("Gal 1"),
       ra |-> Arr(<< [value |-> Num(1), reference |-> Str("Ref1")],
                     [value |-> Num(MaxVal), error_upper |-> Num(1)] >>),
       dec |-> Arr(<< [value |-> Num(MaxVal)] >>)],
      [name |-> Str("Gal 2")],
      [name |-> Str("Gal 2"),
       ra |-> Arr(<< [error_upper |-> Num(MaxVal), reference |-> Str("Nowhere")] >>)],
      [name |-> Str("Gal 2"),
       ra |-> Arr(<< [value |-> Num(MaxVal)], [value |-> Num(MaxVal)] >>)],
      [name |-> Str("Gal 3"), ra |-> Arr(<< >>)],
      [dec |-> Arr(<< [value |-> Num(1)] >>)],
      [name |-> Str("Gal 1"),
       ra |-> Arr(<< [value |-> Num(1), best |-> Num(1), reference |-> Str("Ref1"),
                      unit |-> Str("deg")],
                     [value |-> Num(MaxVal), best |-> Num(0), reference |-> Str("Ref2")] >>)],
      [name |-> Str("Gal 3"),
       ra |-> Arr(<< [value |-> Num(1), best |-> Num(0), reference |-> Str("Ref1")],
                     [value |-> Num(MaxVal), reference |-> Str("Ref2"),
                      unit |-> Str("penguin")] >>),
       dec |-> Arr(<< [distribution |-> NumArr(<<MaxVal - 1, MaxVal + 1>>),
                       best |-> Num(0), reference |-> Str("Ref2")] >>)] }

\* Loading never leaves two documents with the same name in the collection.
NamesDistinct(s) ==
    \A i, j \in 1..Len(s) :
        (i # j /\ "name" \in DOMAIN s[i] /\ "name" \in DOMAIN s[j])
            => s[i]["name"] # s[j]["name"]

\* The collections load_all can leave behind.
Collections ==
    {s \in UNION {[1..n -> DocPool] : n \in 0..MaxDocs} : NamesDistinct(s)}

K(field) == <<field>>
KD(field, sub) == <<field, ".", sub>>
Item(key, value) == <<key, value>>
\* {op: operand}
Op1(op, operand) == Dict(<< <<op, operand>> >>)

\* One key on a field path and its match specification.
FieldConds ==
    {Item(K("name"), Str(n)) : n \in {"Gal 1", "Gal 2", "I DONT EXIST"}}
    \cup {Item(K("name"), Op1("$exists", Bool(TRUE))),
          Item(K("name"), Op1("$ne", Str("Gal 1"))),
          Item(K("ra"), Num(1)),
          Item(K("ra"), Op1("$exists", Bool(TRUE))),
          Item(KD("ra", "value"), Op1("$ne", Num(1))),
          Item(KD("ra", "value"), Dict(<< <<"$gt", Num(1)>>, <<"$lt", Num(MaxVal)>> >>)),
          Item(KD("ra", "value"), Dict(<< <<"$lt", Num(MaxVal)>>, <<"$gt", Num(1)>> >>)),
          Item(KD("ra", "value"), Dict(<< <<"$gte", Num(1)>>, <<"$exists", Bool(TRUE)>> >>)),
          Item(KD("ra", "value"), Dict(<< <<"$exists", Bool(TRUE)>>, <<"$gte", Num(1)>> >>)),
          Item(KD("ra", "value"), NoneV),
          Item(KD("ra", "error_upper"), Num(1)),
          Item(KD("ra", "error_upper"), Op1("$lte", Num(MaxVal))),
          Item(KD("ra", "reference"), Str("Ref1")),
          Item(KD("dec", "value"), Op1("$gte", Num(MaxVal))),
          Item(K("fake_column"), Num(1)),
          Item(KD("fake_column", "value"), Op1("$exists", Bool(TRUE))),
          Item(KD("name", "value"), Num(1))}
    \cup {Item(KD("ra", "value"), Num(v)) : v \in 1..MaxVal}
    \cup {Item(KD("dec", "value"), Num(v)) : v \in 1..MaxVal}
    \cup {Item(KD("ra", "value"), Op1(op, Num(v))) : op \in CompareOps, v \in 1..MaxVal}
    \cup {Item(KD("ra", "value"), Op1("$exists", Bool(b))) : b \in BOOLEAN}

\* The sub-queries of the $or queries: one key, and several keys.
SubQueries ==
    { << Item(KD("ra", "value"), Num(1)) >>,
      << Item(KD("dec", "value"), Op1("$gte", Num(MaxVal))) >>,
      << Item(K("name"), Str("Gal 2")) >>,
      << Item(KD("fake_column", "value"), Num(1)) >>,
      << Item(K("name"), Str("Gal 1")), Item(KD("ra", "value"), Num(MaxVal)) >>,
      << Item(KD("ra", "value"), Op1("$gt", Num(1))), Item(K("name"), Str("Gal 2")) >> }

OrConds ==
    {Item(K("$or"), List(qs)) : qs \in UNION {[1..n -> SubQueries] : n \in 1..2}}

\* Keys that are operators the evaluator does not have.
DollarConds ==
    { Item(K("$and"), List(<< << Item(K("name"), Str("Gal 1")) >> >>)),
      Item(K("$and"), Num(1)),
      Item(K("$gt"), Op1("$gt", Num(1))) }

\* The keys combined into queries with several keys.
PairConds ==
    { Item(K("name"), Str("Gal 1")),
      Item(K("name"), Str("I DONT EXIST")),
      Item(KD("ra", "value"), Op1("$gt", Num(1))),
      Item(KD("ra", "value"), Num(1)),
      Item(KD("ra", "value"), Op1("$exists", Bool(TRUE))),
      Item(KD("ra", "error_upper"), Op1("$lte", Num(MaxVal))),
      Item(KD("dec", "value"), Num(MaxVal)),
      Item(K("fake_column"), Num(1)),
      Item(K("$and"), List(<< << Item(K("name"), Str("Gal 1")) >> >>)),
      Item(K("$or"), List(<< << Item(KD("ra", "value"), Num(1)) >>,
                             << Item(KD("dec", "value"), Num(1)) >> >>)) }

TripleConds ==
    { Item(K("name"), Str("Gal 1")),
      Item(KD("ra", "value"), Op1("$gte", Num(1))),
      Item(KD("dec", "value"), Op1("$lte", Num(MaxVal))) }

\* A dict holds a key once.
KeysDistinct(q) == \A i, j \in 1..Len(q) : i # j => q[i][1] # q[j][1]

Queries ==
    {<<>>}
    \cup {<<c>> : c \in FieldConds \cup OrConds \cup DollarConds}
    \cup {q \in {<<c1, c2>> : c1 \in PairConds, c2 \in PairConds} : KeysDistinct(q)}
    \cup {q \in {<<c1, c2, c3>> : c1 \in TripleConds, c2 \in TripleConds,
                                  c3 \in TripleConds} : KeysDistinct(q)}

\* The queries also made with embed_ref=True.
EmbedQueries ==
    { <<>>,
      << Item(K("name"), Str("Gal 1")) >>,
      << Item(KD("ra", "reference"), Str("Ref1")) >>,
      << Item(KD("ra", "value"), Op1("$gte", Num(MaxVal))) >> }

\* The queries of query_table.
TableQueries ==
    { <<>>,
      << Item(K("name"), Str("Gal 1")) >>,
      << Item(K("name"), Str("I DONT EXIST")) >>,
      << Item(KD("ra", "value"), Op1("$gte", Num(1))) >> }

\* A curation and a selection map field names to reference keys.
NoCuration == [k \in {} |-> Str("")]
Curations == {NoCuration, [ra |-> Str("Ref1")], [dec |-> Str("Ref1")]}
Selections == {NoCuration, [ra |-> Str("Ref2")], [ra |-> Str("FakeRef2019")]}

\* The queries of query_reference.
ReferenceQueries ==
    { <<>>,
      << Item(K("key"), Str("Ref1")) >>,
      << Item(K("key"), Str("Nowhere")) >>,
      << Item(K("bibcode"), Str("2019ApJ")) >> }

\* The references of generate_curation, one and several.
ReferenceLists ==
    { << Str("Ref1") >>, << Str("Ref2") >>, << Str("Ref1"), Str("Ref2") >>,
      << Str("Ref2"), Str("Ref1") >> }

\* The JSON documents handed to load_file_to_db: a new document, one of the
\* same name with other fields, one with an entry that has no reference, and
\* one without 'name'.
LoadDocs ==
    { [name |-> Str("Gal 1"),
       ra |-> List(<< [value |-> Num(1), best |-> Num(1), reference |-> Str("Ref1")] >>)],
      [name |-> Str("Gal 1"),
       dec |-> List(<< [value |-> Num(MaxVal), reference |-> Str("Ref2")] >>)],
      [name |-> Str("Gal 2"),
       ra |-> List(<< [value |-> Num(1), reference |-> Str("Ref1")],
                      [value |-> Num(MaxVal)] >>)],
      [dec |-> List(<< [value |-> Num(1)] >>)] }

\* The JSON data handed to add_data, as item sequences: entries of a stored
\* and of a new reference, a new field, data without 'name', data of a name
\* that is not stored, two fields, two entries of one new reference, and
\* entries the Validator fails: one without value and distribution, one of
\* a reference that is not in the reference collection, one of a unit that
\* is not recognised.
AddInputs ==
    { << <<"name", Str("Gal 1")>>,
         <<"ra", List(<< [value |-> Num(MaxVal), reference |-> Str("Ref1")],
                         [value |-> Num(MaxVal), reference |-> Str("Ref2")] >>)>> >>,
      << <<"name", Str("Gal 1")>>,
         <<"fake_quantity", List(<< [value |-> Num(1)] >>)>> >>,
      << <<"fake_quantity", List(<< [value |-> Num(1)] >>)>> >>,
      << <<"name", Str("Gal 3")>>,
         <<"ra", List(<< [value |-> Num(1), reference |-> Str("Ref1")] >>)>> >>,
      << <<"name", Str("Gal 2")>>,
         <<"dec", List(<< [value |-> Num(1), reference |-> Str("Ref1")] >>)>>,
         <<"ra", List(<< [value |-> Num(1), reference |-> Str("Ref2")] >>)>> >>,
      << <<"name", Str("Gal 1")>>,
         <<"dec", List(<< [value |-> Num(1), reference |-> Str("Ref1")],
                          [value |-> Num(MaxVal), reference |-> Str("Ref1")] >>)>> >>,
      << <<"name", Str("Gal 1")>>,
         <<"dec", List(<< [error_upper |-> Num(1), reference |-> Str("Ref1")] >>)>> >>,
      << <<"name", Str("Gal 1")>>,
         <<"dec", List(<< [value |-> Num(1), reference |-> Str("FakeRef2019")] >>)>> >>,
      << <<"name", Str("Gal 1")>>,
         <<"dec", List(<< [value |-> Num(1), reference |-> Str("Ref1"),
                           unit |-> Str("penguin")] >>)>> >> }

\* The documents handed to the Validator: the data handed to add_data, and
\* a document with several failing entries, one of which fails two checks.
ValidateDocs ==
    AddInputs \cup
    { << <<"name", Str("Gal 1")>>,
         <<"ra", List(<< [error_upper |-> Num(1), reference |-> Str("Ref1")],
                         [value |-> Num(1), reference |-> Str("FakeRef2019"),
                          unit |-> Str("penguin")],
                         [value |-> Num(1), reference |-> Str("Ref2"),
                          unit |-> Str("deg")] >>)>>,
         <<"dec", List(<< [value |-> Num(MaxVal)] >>)>> >> }

\* The entries of the JSON documents converted and saved: of a value, of a
\* value with unit and error, of a distribution.
JsonEntries ==
    << [value |-> Num(1), best |-> Num(1), reference |-> Str("Ref1")],
       [value |-> Num(MaxVal), error_upper |-> Num(1), unit |-> Str("deg"),
        best |-> Num(0), reference |-> Str("Ref2")],
       [distribution |-> NumList(<<MaxVal - 1, MaxVal + 1>>), best |-> Num(0),
        reference |-> Str("Ref2")] >>

\* The well-formed JSON documents converted and saved, as item sequences: a
\* name alone, a scalar field, an empty field, one and several entries, and
\* the same fields in two orders.
JsonDocs ==
    UNION {
      { << <<"name", Str(n)>> >>,
        << <<"name", Str(n)>>, <<"fake_quantity", Num(1)>> >>,
        << <<"name", Str(n)>>, <<"ra", List(<<>>)>> >>,
        << <<"name", Str(n)>>, <<"ra", List(<< JsonEntries[1] >>)>> >>,
        << <<"name", Str(n)>>,
           <<"ra", List(<< JsonEntries[1], JsonEntries[2] >>)>>,
           <<"dec", List(<< JsonEntries[3] >>)>> >>,
        << <<"name", Str(n)>>,
           <<"dec", List(<< JsonEntries[3], JsonEntries[2] >>)>>,
           <<"fake_quantity", Num(1)>>,
           <<"ra", List(<< JsonEntries[2], JsonEntries[1] >>)>> >> }
      : n \in {"Gal 1", "Gal 2"} }

---------------------------------------------------------------------------
(* The state machine *)

NoCall == [op |-> "none", query |-> <<>>, embed_ref |-> FALSE]
NoRet == [err |-> NoErr, idx |-> <<>>, docs |-> <<>>]

\* The state after Database(directory, references_file): the references are
\* read and load_all has loaded the documents of the directory.
Init ==
    /\ db \in Collections
    /\ references = Refs
    /\ strictTruth \in BOOLEAN
    /\ call = NoCall
    /\ ret = NoRet

\* A caller runs query_db(query, embed_ref) on the in-memory collection.
CallQueryDb(query, embed_ref) ==
    /\ call.op = "none"
    /\ call' = [op |-> "query_db", query |-> query, embed_ref |-> embed_ref]
    /\ ret' = QueryDb(db, references, query, embed_ref, strictTruth)
    /\ db' = QueryDbStore(db, references, query, embed_ref, strictTruth)
    /\ UNCHANGED <<references, strictTruth>>

\* What a query hands to the caller: the documents at the positions found.
Handed(coll, result) ==
    [err |-> result.err, idx |-> result.res, docs |-> Found(coll, result)]

\* A caller runs query_reference(query).
CallQueryReference(query) ==
    /\ call.op = "none"
    /\ call' = [op |-> "query_reference", query |-> query]
    /\ ret' = Handed(references, QueryReference(references, query, strictTruth))
    /\ UNCHANGED <<db, references, strictTruth>>

\* A caller runs query_table(query, curation, selection); the rows are
\* handed back.
CallQueryTable(query, curation, selection) ==
    /\ call.op = "none"
    /\ call' = [op |-> "query_table", query |-> query,
                curation |-> curation, selection |-> selection]
    /\ ret' = QueryTable(db, references, query, curation, selection, strictTruth)
    /\ UNCHANGED <<db, references, strictTruth>>

\* A caller runs generate_curation(reference, existing_curation); the
\* curation is handed back.
CallGenerateCuration(reference_list, existing_curation) ==
    /\ call.op = "none"
    /\ call' = [op |-> "generate_curation", reference |-> reference_list,
                existing_curation |-> existing_curation]
    /\ ret' = [err |-> NoErr, idx |-> <<>>,
               docs |-> << GenerateCuration(db, reference_list, existing_curation) >>]
    /\ UNCHANGED <<db, references, strictTruth>>

\* What a validation hands to the caller: its verdict, and what it printed.
Judged(v) == [err |-> v.err, idx |-> <<>>, docs |-> << Bool(v.ok), List(v.said) >>]

\* A caller runs Validator(database).run() on the whole collection; the
\* verdict is handed back.
CallValidatorRun ==
    /\ call.op = "none"
    /\ call' = [op |-> "validator_run"]
    /\ ret' = Judged(ValidatorRun(db, references, TRUE, strictTruth))
    /\ UNCHANGED <<db, references, strictTruth>>

\* A caller runs Validator(database, db_object=doc, ref_check=ref_check)
\* .run() on a document given as data; the verdict is handed back.
CallValidate(doc, ref_check) ==
    /\ call.op = "none"
    /\ call' = [op |-> "validate", doc |-> doc, ref_check |-> ref_check]
    /\ ret' = Judged(RunOne(db, references, doc, ref_check, strictTruth))
    /\ UNCHANGED <<db, references, strictTruth>>

\* A call that changes the collection: the call keeps the collection it
\* was made on, the collection becomes what the operation left, and the
\* notices printed are handed back.  The collection has room for MaxDocs
\* documents.
Mutate(record, out) ==
    /\ call.op = "none"
    /\ Len(out.db) <= MaxDocs
    /\ call' = record
    /\ ret' = [err |-> out.err, idx |-> <<>>, docs |-> out.notices]
    /\ db' = out.db
    /\ UNCHANGED <<references, strictTruth>>

\* A caller runs load_file_to_db(doc).
CallLoadFileToDb(doc) ==
    Mutate([op |-> "load_file_to_db", doc |-> doc, before |-> db],
           LoadFileToDb(db, references, doc, strictTruth))

\* A caller runs add_data(new_data, force, update_value, validate).
CallAddData(new_data, force, update_value, validate) ==
    Mutate([op |-> "add_data", new_data |-> new_data, force |-> force,
            update_value |-> update_value, validate |-> validate, before |-> db],
           AddData(db, references, new_data, force, update_value, validate, strictTruth))

\* The caller is done with the result.
Return ==
    /\ call.op # "none"
    /\ call' = NoCall
    /\ ret' = NoRet
    /\ UNCHANGED <<db, references, strictTruth>>

Next ==
    \/ \E query \in Queries : CallQueryDb(query, FALSE)
    \/ \E query \in EmbedQueries : CallQueryDb(query, TRUE)
    \/ \E query \in ReferenceQueries : CallQueryReference(query)
    \/ \E query \in TableQueries, curation \in Curations, selection \in Selections :
          CallQueryTable(query, curation, selection)
    \/ \E reference_list \in ReferenceLists, existing_curation \in Curations :
          CallGenerateCuration(reference_list, existing_curation)
    \/ CallValidatorRun
    \/ \E doc \in ValidateDocs, ref_check \in BOOLEAN : CallValidate(doc, ref_check)
    \/ Return

Spec == Init /\ [][Next]_vars

\* The state after Database(directory, references_file) on a directory
\* without documents: the collection is empty.
InitLoad ==
    /\ db = <<>>
    /\ references = Refs
    /\ strictTruth \in BOOLEAN
    /\ call = NoCall
    /\ ret = NoRet

\* The collection is built by load_file_to_db and add_data.
NextLoad ==
    \/ \E doc \in LoadDocs : CallLoadFileToDb(doc)
    \/ \E new_data \in AddInputs, force \in BOOLEAN, update_value \in BOOLEAN,
          validate \in BOOLEAN :
          CallAddData(new_data, force, update_value, validate)
    \/ Return

SpecLoad == InitLoad /\ [][NextLoad]_vars

\* A caller runs _recursive_json_fix(doc) on a JSON document.
CallRecursiveJsonFix(doc) ==
    /\ call.op = "none"
    /\ call' = [op |-> "_recursive_json_fix", doc |-> doc]
    /\ ret' = [err |-> NoErr, idx |-> <<>>, docs |-> <<JsonFixItems(doc)>>]
    /\ UNCHANGED <<db, references, strictTruth>>

\* The caller runs _recursive_json_reverse_fix on what the fix returned.
CallRecursiveJsonReverseFix ==
    /\ call.op = "_recursive_json_fix"
    /\ call' = [op |-> "_recursive_json_reverse_fix", doc |-> call.doc,
                fixed |-> ret.docs[1]]
    /\ ret' = [err |-> NoErr, idx |-> <<>>, docs |-> <<JsonReverseFixItems(ret.docs[1])>>]
    /\ UNCHANGED <<db, references, strictTruth>>

\* A caller runs save_from_db(doc) on the stored document at position i: the
\* JSON representation of the document is written (lines 303-315).
CallSaveFromDb(i) ==
    /\ call.op = "none"
    /\ call' = [op |-> "save_from_db", doc |-> db[i]]
    /\ ret' = [err |-> NoErr, idx |-> <<>>,
               docs |-> <<JsonReverseFixItems(DocItems(db[i]))>>]
    /\ UNCHANGED <<db, references, strictTruth>>

\* The collection becomes what the load left.
Reloaded(out) ==
    /\ ret' = [err |-> out.err, idx |-> <<>>, docs |-> out.notices]
    /\ db' = out.db

\* The caller runs load_file_to_db on the file save_from_db wrote.
CallLoadSaved ==
    /\ call.op = "save_from_db"
    /\ call' = [op |-> "load_saved", doc |-> AsDoc(ret.docs[1]), before |-> db]
    /\ Reloaded(LoadFileToDb(db, references, AsDoc(ret.docs[1]), strictTruth))
    /\ UNCHANGED <<references, strictTruth>>

\* Documents are converted to and from the loaded form, loaded, saved and
\* loaded again.
NextJson ==
    \/ \E doc \in JsonDocs : CallRecursiveJsonFix(doc)
    \/ CallRecursiveJsonReverseFix
    \/ \E doc \in JsonDocs : CallLoadFileToDb(AsDoc(doc))
    \/ \E i \in 1..Len(db) : CallSaveFromDb(i)
    \/ CallLoadSaved
    \/ Return

SpecJson == InitLoad /\ [][NextJson]_vars

---------------------------------------------------------------------------
(* What the claims are stated with *)

AsSet(seq) == {seq[n] : n \in 1..Len(seq)}

\* The query in progress run by _query_manual on the collection.
Manual(query) == QueryManual(db, query, strictTruth)

Queried == call.op = "query_db"

\* Field a is multi-valued in every stored document that has it.
MultiValued(a) ==
    \A i \in 1..Len(db) : a \in DOMAIN db[i] => db[i][a][1] = "arr"

\* Some entry of field a of the document has sub-field b equal to v.
SomeEntryEquals(doc, a, b, v) ==
    /\ a \in DOMAIN doc
    /\ doc[a][1] = "arr"
    /\ \E n \in 1..Len(doc[a][2]) :
          b \in DOMAIN doc[a][2][n] /\ doc[a][2][n][b] = v

\* Some entry of field a of the document has a number in sub-field b that
\* compares with the number v as op says.
SomeEntryCompares(doc, a, b, op, v) ==
    /\ a \in DOMAIN doc
    /\ doc[a][1] = "arr"
    /\ \E n \in 1..Len(doc[a][2]) :
          /\ b \in DOMAIN doc[a][2][n]
          /\ doc[a][2][n][b][1] = "num"
          /\ Cmp(op, doc[a][2][n][b][2], v)

IsLiteral(value) == value[1] \in {"str", "num"}
IsCompare(value) ==
    /\ value[1] = "dict"
    /\ Len(value[2]) = 1
    /\ value[2][1][1] \in CompareOps
    /\ value[2][1][2][1] = "num"

\* The document satisfies one key of a query whose match specification is a
\* literal or a single comparison.
Satisfies(doc, item) ==
    LET key_list == Split(item[1])
        value == item[2]
    IN  CASE Len(key_list) = 1 /\ IsLiteral(value) ->
                key_list[1] \in DOMAIN doc /\ doc[key_list[1]] = value
          [] Len(key_list) = 2 /\ IsLiteral(value) ->
                SomeEntryEquals(doc, key_list[1], key_list[2], value)
          [] Len(key_list) = 2 /\ IsCompare(value) ->
                SomeEntryCompares(doc, key_list[1], key_list[2],
                                  value[2][1][1], value[2][1][2][2])
          [] OTHER -> FALSE

\* The positions of the documents that satisfy P, in collection order.
Where(P(_)) == SelectSeq(Positions(Len(db)), LAMBDA i : P(db[i]))

SupportedOps == CompareOps \cup {"$or"}

\* The $-operators of a query that the evaluator does not support: top-level
\* keys and operators of a match specification.
UnsupportedOps(query) ==
    ({Split(query[n][1])[1] : n \in 1..Len(query)} \cap (DollarNames \ SupportedOps))
    \cup UNION {{query[n][2][2][m][1] : m \in 1..Len(query[n][2][2])} \ SupportedOps :
                n \in {h \in 1..Len(query) : query[h][2][1] = "dict"}}

---------------------------------------------------------------------------
(* The claims *)

\* C1: query_db({'$or': [Q1, Q2]}) returns exactly the documents that are in
\* query_db(Q1) or in query_db(Q2), when both evaluate without error.
C1_OrIsUnion ==
    (/\ Queried
     /\ Len(call.query) = 1
     /\ call.query[1][1] = K("$or")
     /\ call.query[1][2][1] = "list"
     /\ Len(call.query[1][2][2]) = 2
     /\ Manual(call.query[1][2][2][1]).err = NoErr
     /\ Manual(call.query[1][2][2][2]).err = NoErr)
    => /\ ret.err = NoErr
       /\ AsSet(ret.idx) = AsSet(Manual(call.query[1][2][2][1]).res)
                           \cup AsSet(Manual(call.query[1][2][2][2]).res)

\* C2: a query with several keys, split anywhere into Q1 and Q2 that both
\* evaluate without error, returns exactly the documents that both Q1 and Q2
\* return, and so does the query with Q2's keys before Q1's.
C2_AndIsIntersection ==
    Queried =>
        \A k \in 1..(Len(call.query) - 1) :
            LET r1 == Manual(SubSeq(call.query, 1, k))
                r2 == Manual(SubSeq(call.query, k + 1, Len(call.query)))
                both == SelectSeq(Positions(Len(db)),
                            LAMBDA i : i \in AsSet(r1.res) /\ i \in AsSet(r2.res))
            IN  (r1.err = NoErr /\ r2.err = NoErr)
                => /\ ret.err = NoErr
                   /\ ret.idx = both
                   /\ Manual(SubSeq(call.query, k + 1, Len(call.query))
                             \o SubSeq(call.query, 1, k)) = Ok(both)

\* C2 witness: two keys that each return something, one of them more than
\* the other, and a non-empty intersection.
C2_Witness ==
    /\ Queried
    /\ Len(call.query) = 2
    /\ Manual(<<call.query[1]>>).err = NoErr
    /\ Manual(<<call.query[2]>>).err = NoErr
    /\ Manual(<<call.query[1]>>).res # Manual(<<call.query[2]>>).res
    /\ ret.err = NoErr
    /\ ret.idx # <<>>

\* C3: a query that gives {'$exists': b} as the match specification of a
\* field path always fails with the explicit $exists error.
C3_ExistsRejected ==
    (/\ Queried
     /\ \E n \in 1..Len(call.query) :
           /\ ~StartsWithDollar(Split(call.query[n][1])[1])
           /\ call.query[n][2][1] = "dict"
           /\ Len(call.query[n][2][2]) = 1
           /\ call.query[n][2][2][1][1] = "$exists")
    => ret.err = ExistsErr

\* C4: a query that contains an unsupported $-operator fails with an error
\* that names that operator.
C4_UnsupportedRejected ==
    (Queried /\ UnsupportedOps(call.query) # {})
    => /\ ret.err.kind \in {"NotSupported", "RuntimeError"}
       /\ ret.err.op \in UnsupportedOps(call.query)

\* C5: a query {'a.b': {op: v}} with a comparison operator returns exactly
\* the documents that have an entry of a whose sub-field b compares with v as
\* op says, and an entry without b does not make it fail.
C5_CompareAnyEntry ==
    (/\ Queried
     /\ Len(call.query) = 1
     /\ Len(Split(call.query[1][1])) = 2
     /\ IsCompare(call.query[1][2])
     /\ MultiValued(Split(call.query[1][1])[1]))
    => /\ ret.err = NoErr
       /\ ret.idx = Where(LAMBDA doc : Satisfies(doc, call.query[1]))

\* C6: a query {'a.b': v} with a literal v on a multi-valued field a returns
\* exactly the documents that have field a and an entry of a whose sub-field
\* b equals v; documents without a and entries without b do not match and do
\* not make the query fail.
C6_EqualAnyEntry ==
    (/\ Queried
     /\ Len(call.query) = 1
     /\ Len(Split(call.query[1][1])) = 2
     /\ IsLiteral(call.query[1][2])
     /\ MultiValued(Split(call.query[1][1])[1]))
    => /\ ret.err = NoErr
       /\ ret.idx = Where(LAMBDA doc : Satisfies(doc, call.query[1]))

\* C6 witness: such a query returns a document while another document has
\* the field with an entry that lacks the sub-field.
C6_Witness ==
    /\ Queried
    /\ Len(call.query) = 1
    /\ Len(Split(call.query[1][1])) = 2
    /\ IsLiteral(call.query[1][2])
    /\ ret.err = NoErr
    /\ ret.idx # <<>>
    /\ \E i \in 1..Len(db) :
          LET a == Split(call.query[1][1])[1]
              b == Split(call.query[1][1])[2]
          IN  /\ i \notin AsSet(ret.idx)
              /\ a \in DOMAIN db[i]
              /\ db[i][a][1] = "arr"
              /\ \E n \in 1..Len(db[i][a][2]) : b \notin DOMAIN db[i][a][2][n]

\* C7: when exactly one candidate contains the field of a key (the match
\* specification a literal or one comparison), a document is returned only
\* if it satisfies that key: the value filter is applied to the single
\* candidate.
C7_SingleCandidateFiltered ==
    Queried =>
        \A k \in 1..Len(call.query) :
            LET before == Manual(SubSeq(call.query, 1, k - 1))
                key_list == Split(call.query[k][1])
                value == call.query[k][2]
            IN  (/\ before.err = NoErr
                 /\ ~StartsWithDollar(key_list[1])
                 /\ (IsLiteral(value) \/ IsCompare(value))
                 /\ Len(SubQueryPresence(db, before.res, key_list[1]).res) = 1
                 /\ ret.err = NoErr)
                => \A i \in AsSet(ret.idx) : Satisfies(db[i], call.query[k])

\* C7 witness: one document of several has the field, it does not satisfy
\* the key, and the query returns nothing.
C7_Witness ==
    /\ Queried
    /\ Len(call.query) = 1
    /\ Len(db) >= 2
    /\ ~StartsWithDollar(Split(call.query[1][1])[1])
    /\ (IsLiteral(call.query[1][2]) \/ IsCompare(call.query[1][2]))
    /\ Len(SubQueryPresence(db, Positions(Len(db)), Split(call.query[1][1])[1]).res) = 1
    /\ ret.err = NoErr
    /\ ret.idx = <<>>

\* C8: query_db({}) returns every document of the collection, in collection
\* order, unchanged.
C8_EmptyQueryIdentity ==
    (Queried /\ call.query = <<>>)
    => /\ ret.err = NoErr
       /\ ret.idx = Positions(Len(db))
       /\ (~call.embed_ref => ret.docs = db)

\* C8 witness: the empty query on a collection of several documents.
C8_Witness ==
    /\ Queried
    /\ call.query = <<>>
    /\ ~call.embed_ref
    /\ Len(db) >= 2
    /\ Len(ret.docs) = Len(db)

\* C9: once the candidate set is empty after some key of the query, query_db
\* returns the empty result without an error, whatever keys remain; so does
\* a query whose first key is a field that no document contains.
C9_EmptyIsTerminal ==
    Queried =>
        /\ \A k \in 1..Len(call.query) :
              Manual(SubSeq(call.query, 1, k)) = Ok(<<>>)
                  => ret.err = NoErr /\ ret.idx = <<>> /\ ret.docs = <<>>
        /\ (/\ call.query # <<>>
            /\ ~StartsWithDollar(Split(call.query[1][1])[1])
            /\ \A i \in 1..Len(db) : Split(call.query[1][1])[1] \notin DOMAIN db[i])
           => ret.err = NoErr /\ ret.idx = <<>> /\ ret.docs = <<>>

\* C9 witness: the first key empties the candidates of a non-empty
\* collection and the key that follows is one that raises on a candidate.
C9_Witness ==
    /\ Queried
    /\ Len(call.query) = 2
    /\ db # <<>>
    /\ Manual(<<call.query[1]>>) = Ok(<<>>)
    /\ Manual(<<call.query[2]>>).err # NoErr
    /\ ret.err = NoErr
    /\ ret.idx = <<>>

\* C10: the result of a query that evaluates without error is a subsequence
\* of the collection: stored documents, in collection order, each at most
\* once.
C10_ResultIsSubsequence ==
    (Queried /\ ret.err = NoErr)
    => /\ \A n \in 1..Len(ret.idx) : ret.idx[n] \in 1..Len(db)
       /\ \A n, m \in 1..Len(ret.idx) : n < m => ret.idx[n] < ret.idx[m]
       /\ Len(ret.docs) = Len(ret.idx)
       /\ (~call.embed_ref => \A n \in 1..Len(ret.idx) : ret.docs[n] = db[ret.idx[n]])

\* C10 witness: a document that matches both sub-queries of a $or, returned
\* after another document.
C10_Witness ==
    /\ Queried
    /\ Len(call.query) = 1
    /\ call.query[1][1] = K("$or")
    /\ Len(call.query[1][2][2]) = 2
    /\ Manual(call.query[1][2][2][1]).err = NoErr
    /\ Manual(call.query[1][2][2][2]).err = NoErr
    /\ ret.err = NoErr
    /\ Len(ret.idx) = 2
    /\ ret.idx[2] \in AsSet(Manual(call.query[1][2][2][1]).res)
    /\ ret.idx[2] \in AsSet(Manual(call.query[1][2][2][2]).res)

---------------------------------------------------------------------------
(* query_table: the selection of the entry that makes the cell *)

TableCalled == call.op = "query_table"

\* The override mapping of the query_table call in progress.
Overrides == CurationDict(call.curation, call.selection)

\* The positions of the documents the query of the call in progress finds.
TableDocs == Manual(call.query).res

\* The entries of the field are ValueEntry mappings of which the given one
\* carries a value or a distribution.
HasValue(entry) == "value" \in DOMAIN entry \/ "distribution" \in DOMAIN entry

\* Field k of the document is multi-valued.
IsEntries(doc, k) == k \in DOMAIN doc /\ doc[k][1] = "arr"

\* The entries of field k whose sub-field f equals v, in order.
EntriesWith(doc, k, f, v) ==
    SelectSeq(doc[k][2], LAMBDA x : f \in DOMAIN x /\ x[f] = v)

\* The row of the n-th document found holds e's value under k / has no k.
RowHolds(n, k, e) ==
    ret.err = NoErr => (k \in DOMAIN ret.docs[n] /\ ret.docs[n][k] = EntryCell(e).value)
RowOmits(n, k) ==
    ret.err = NoErr => k \notin DOMAIN ret.docs[n]

\* C11: in query_table a field with two or more entries that the override
\* mapping names contributes the value of the entry whose reference equals
\* the override, whatever the best flags; when no entry has that reference
\* the field is left out of the row and nothing is raised for it.
C11_OverrideSelects ==
    (TableCalled /\ Manual(call.query).err = NoErr) =>
        \A n \in 1..Len(TableDocs) :
            LET doc == db[TableDocs[n]] IN
            \A k \in DOMAIN doc \cap DOMAIN Overrides :
                (IsEntries(doc, k) /\ Len(doc[k][2]) >= 2) =>
                    LET sel == EntriesWith(doc, k, "reference", Overrides[k]) IN
                    IF sel = <<>>
                    THEN TableCell(doc, k, Overrides) = NoCell /\ RowOmits(n, k)
                    ELSE HasValue(sel[1]) =>
                            /\ TableCell(doc, k, Overrides) = EntryCell(sel[1])
                            /\ RowHolds(n, k, sel[1])

\* C12: in query_table a field with two or more entries that the override
\* mapping does not name contributes the value of the entry whose best flag
\* is 1; when no entry has best = 1, or none has a best flag, the field is
\* left out of the row and nothing is raised for it.
C12_BestSelects ==
    (TableCalled /\ Manual(call.query).err = NoErr) =>
        \A n \in 1..Len(TableDocs) :
            LET doc == db[TableDocs[n]] IN
            \A k \in DOMAIN doc \ DOMAIN Overrides :
                (IsEntries(doc, k) /\ Len(doc[k][2]) >= 2) =>
                    LET sel == EntriesWith(doc, k, "best", Num(1)) IN
                    IF sel = <<>>
                    THEN TableCell(doc, k, Overrides) = NoCell /\ RowOmits(n, k)
                    ELSE HasValue(sel[1]) =>
                            /\ TableCell(doc, k, Overrides) = EntryCell(sel[1])
                            /\ RowHolds(n, k, sel[1])

\* C12 witness: a table of two rows made without override; the field of the
\* first document has several entries, one of them with best = 1 that is not
\* the last, and its row holds that value; the field of the second has
\* several entries, none with best = 1, and its row has no such column.
C12_Witness ==
    /\ TableCalled
    /\ Overrides = NoCuration
    /\ ret.err = NoErr
    /\ Len(ret.docs) = 2
    /\ \E k \in DOMAIN db[ret.idx[1]] \cap DOMAIN db[ret.idx[2]] :
          /\ IsEntries(db[ret.idx[1]], k) /\ Len(db[ret.idx[1]][k][2]) >= 2
          /\ IsEntries(db[ret.idx[2]], k) /\ Len(db[ret.idx[2]][k][2]) >= 2
          /\ EntriesWith(db[ret.idx[1]], k, "best", Num(1)) # <<>>
          /\ EntriesWith(db[ret.idx[2]], k, "best", Num(1)) = <<>>
          /\ k \in DOMAIN ret.docs[1]
          /\ k \notin DOMAIN ret.docs[2]

\* C13: in query_table a multi-valued field with exactly one entry (that
\* carries a value or a distribution) always contributes that entry's value,
\* whatever its best flag and reference are and whether or not the override
\* mapping names the field.
C13_SingleEntryAlways ==
    (TableCalled /\ Manual(call.query).err = NoErr) =>
        \A n \in 1..Len(TableDocs) :
            LET doc == db[TableDocs[n]] IN
            \A k \in DOMAIN doc :
                (IsEntries(doc, k) /\ Len(doc[k][2]) = 1 /\ HasValue(doc[k][2][1])) =>
                    /\ TableCell(doc, k, Overrides) = EntryCell(doc[k][2][1])
                    /\ RowHolds(n, k, doc[k][2][1])

\* C13 witness: the override mapping names a field with a reference that its
\* single entry does not have, and the row holds that entry's value.
C13_Witness ==
    /\ TableCalled
    /\ ret.err = NoErr
    /\ \E n \in 1..Len(ret.docs) :
          \E k \in DOMAIN db[ret.idx[n]] \cap DOMAIN Overrides :
              /\ IsEntries(db[ret.idx[n]], k)
              /\ Len(db[ret.idx[n]][k][2]) = 1
              /\ Get(db[ret.idx[n]][k][2][1], "reference") # Overrides[k]
              /\ Get(db[ret.idx[n]][k][2][1], "best") # Num(1)
              /\ k \in DOMAIN ret.docs[n]

\* No entry of the documents holds a reference record in place of its key.
BareKeys(docs) ==
    \A n \in 1..Len(docs) : \A k \in DOMAIN docs[n] :
        docs[n][k][1] = "arr" =>
            \A i \in 1..Len(docs[n][k][2]) :
                "reference" \in DOMAIN docs[n][k][2][i]
                    => docs[n][k][2][i]["reference"][1] # "refdoc"

\* C14: no read operation (query_db with or without embedding,
\* query_reference, query_table, generate_curation, Validator.run) changes
\* the collection or the reference collection, and a query without embedding
\* always hands back entries that hold the bare reference key.
C14_ReadsKeepStore ==
    /\ [][db' = db /\ references' = references]_vars
    /\ [](BareKeys(db) /\ (Queried /\ ~call.embed_ref => BareKeys(ret.docs)))

\* C14 witness: a query with embedding handed back an entry that holds the
\* reference record while the stored entry holds the key.
C14_Witness ==
    /\ Queried
    /\ call.embed_ref
    /\ ret.err = NoErr
    /\ \E n \in 1..Len(ret.idx) : \E k \in DOMAIN ret.docs[n] :
          /\ ret.docs[n][k][1] = "arr"
          /\ \E i \in 1..Len(ret.docs[n][k][2]) :
                /\ "reference" \in DOMAIN ret.docs[n][k][2][i]
                /\ ret.docs[n][k][2][i]["reference"][1] = "refdoc"
                /\ db[ret.idx[n]][k][2][i]["reference"][1] = "str"

Loaded == call.op = "load_file_to_db"
Added == call.op = "add_data"

\* The positions of the documents of a collection that carry the name.
Named(coll, name) ==
    {i \in 1..Len(coll) : "name" \in DOMAIN coll[i] /\ coll[i]["name"] = name}

\* C15: load_file_to_db(doc) with a document that carries the identifier
\* replaces the stored document of that name as a whole, the size of the
\* collection and every other document unchanged, or else appends doc, every
\* stored document unchanged; a query by that name then returns exactly one
\* document, the one loaded.
C15_InsertOrReplace ==
    (Loaded /\ "name" \in DOMAIN call.doc) =>
        LET doc == RecursiveJsonFix(call.doc)
            at == Named(call.before, call.doc["name"])
        IN  /\ ret.err = NoErr
            /\ at # {} =>
                  /\ Len(db) = Len(call.before)
                  /\ \A i \in 1..Len(db) :
                        db[i] = IF i \in at THEN doc ELSE call.before[i]
            /\ at = {} => db = Append(call.before, doc)
            /\ Cardinality(Named(db, doc["name"])) = 1
            /\ Manual(NameQuery(doc["name"])).err = NoErr
            /\ AsSet(Manual(NameQuery(doc["name"])).res) = Named(db, doc["name"])
            /\ \A i \in Named(db, doc["name"]) : db[i] = doc

\* C15 witness: a load replaced, in a collection of two documents, a
\* document holding a field that add_data had merged and the new document
\* lacks.
C15_Witness ==
    /\ Loaded
    /\ "name" \in DOMAIN call.doc
    /\ Len(call.before) = 2
    /\ \E i \in Named(call.before, call.doc["name"]) :
          /\ "fake_quantity" \in DOMAIN call.before[i]
          /\ "fake_quantity" \notin DOMAIN db[i]
          /\ db[i] = RecursiveJsonFix(call.doc)

\* C16: after any sequence of load_file_to_db and add_data calls on a
\* collection that was empty, no two documents have the same name.
C16_NamesDistinct == NamesDistinct(db)

\* C16 witness: a document was loaded under a name that one of two stored
\* documents with different names had, and the collection still holds two.
C16_Witness ==
    /\ Loaded
    /\ "name" \in DOMAIN call.doc
    /\ Len(call.before) = 2
    /\ Named(call.before, call.doc["name"]) # {}
    /\ \A i \in 1..2 : "name" \in DOMAIN call.before[i]
    /\ Len(db) = 2
    /\ db # call.before

\* Sequence a is the beginning of sequence b.
IsPrefix(a, b) == Len(a) <= Len(b) /\ SubSeq(b, 1, Len(a)) = a

\* The references the entries es carry.
RefsOf(es) == {es[n]["reference"] : n \in {h \in 1..Len(es) : "reference" \in DOMAIN es[h]}}

\* The entries of v, in order, whose reference none of the entries es has.
NewOf(v, es) == SelectSeq(v, LAMBDA x : Get(x, "reference") \notin RefsOf(es))

\* The call merged its data and wrote the document back.
Updated == Added /\ ret.err = NoErr /\ ret.docs = <<"has been updated">>

\* add_data of the call left document old as document new: every field of
\* old is kept with its entries as the beginning of the entries of new.
KeepsEntries(old, new) ==
    \A k \in DOMAIN old :
        /\ k \in DOMAIN new
        /\ IF old[k][1] = "arr"
           THEN new[k][1] = "arr" /\ IsPrefix(old[k][2], new[k][2])
           ELSE new[k] = old[k]

\* Document new is document old with the data merged as update_value=False
\* says: a field of the data that old lacks holds the given entries, a field
\* that old has holds its entries followed by the given entries of a
\* reference it did not hold, and the other fields are those of old.
MergedAsNew(old, new, new_data) ==
    /\ DOMAIN new = DOMAIN old \cup {new_data[n][1] : n \in 1..Len(new_data)}
    /\ \A k \in DOMAIN new :
          IF k = "name" \/ ItemsGet(new_data, k) = NoneV THEN new[k] = old[k]
          ELSE IF k \notin DOMAIN old THEN new[k] = Arr(ItemsGet(new_data, k)[2])
          ELSE new[k] = Arr(old[k][2] \o NewOf(ItemsGet(new_data, k)[2], old[k][2]))

\* C17: add_data with update_value=False never changes or removes a stored
\* entry: the collection keeps its size, every document but the one of the
\* data's name is unchanged, and the entries every field of that document
\* held are the beginning of the entries it holds afterwards; when the data
\* was merged, entries of a reference the field did not hold were appended
\* in input order, those of a reference it held were skipped, and a new
\* field holds the given entries.
C17_NoUpdateKeepsEntries ==
    (Added /\ ~call.update_value) =>
        /\ Len(db) = Len(call.before)
        /\ \A i \in 1..Len(db) :
              IF i \in Named(call.before, ItemsGet(call.new_data, "name"))
              THEN /\ KeepsEntries(call.before[i], db[i])
                   /\ Updated => MergedAsNew(call.before[i], db[i], call.new_data)
              ELSE db[i] = call.before[i]

\* C17 witness: a call with update_value=False merged a field of which one
\* given entry had a stored reference and was skipped and another had a new
\* reference and was appended.
C17_Witness ==
    /\ Updated
    /\ ~call.update_value
    /\ \E i \in Named(call.before, ItemsGet(call.new_data, "name")) :
       \E n \in 1..Len(call.new_data) :
          LET k == call.new_data[n][1]
              v == call.new_data[n][2][2]
          IN  /\ k \in DOMAIN call.before[i]
              /\ k # "name"
              /\ Len(NewOf(v, call.before[i][k][2])) = 1
              /\ Len(v) = 2
              /\ db[i][k][2] = Append(call.before[i][k][2], v[2])
              /\ v[1] \notin AsSet(db[i][k][2])

\* The data of the add_data call in progress has no 'name' key.
Nameless == \A n \in 1..Len(call.new_data) : call.new_data[n][1] # "name"

\* C18: add_data on data without the identifier raises the missing-name
\* RuntimeError, with validation on and off, and leaves the collection
\* unchanged.
C18_AddDataNeedsName ==
    (Added /\ Nameless) =>
        /\ ret.err = MissingName
        /\ ret.docs = <<>>
        /\ db = call.before

\* C18 witness: data without the identifier was given, with validation on,
\* to a collection that holds documents, and the call raised.
C18_Witness ==
    /\ Added
    /\ Nameless
    /\ call.validate
    /\ call.before # <<>>
    /\ ret.err.kind = "RuntimeError"

\* C19: add_data on data whose name no stored document has returns without
\* raising, with a notice, with validation on and off, and leaves the
\* collection unchanged.
C19_UnmatchedIsNotice ==
    (/\ Added
     /\ ~Nameless
     /\ Named(call.before, ItemsGet(call.new_data, "name")) = {})
    => /\ ret.err = NoErr
       /\ ret.docs # <<>>
       /\ db = call.before

\* C20: load_file_to_db on a document without the identifier raises and
\* leaves the collection unchanged.
C20_LoadNeedsName ==
    (Loaded /\ "name" \notin DOMAIN call.doc)
    => /\ ret.err # NoErr
       /\ db = call.before

\* The entry fails one of the checks of the Validator: it has neither value
\* nor distribution, its reference is missing, empty or not a key of the
\* reference collection, or it has a unit that is not recognised.
EntryFails(elem) ==
    \/ "value" \notin DOMAIN elem /\ "distribution" \notin DOMAIN elem
    \/ "reference" \notin DOMAIN elem
    \/ elem["reference"] = Str("")
    \/ \A n \in 1..Len(references) : references[n]["key"] # elem["reference"]
    \/ /\ "unit" \in DOMAIN elem
       /\ elem["unit"] # Str("")
       /\ elem["unit"] \notin {Str(u) : u \in KnownUnits}

\* Some entry of some field of the data fails a check of the Validator.
DataFails(new_data) ==
    \E n \in 1..Len(new_data) :
        /\ new_data[n][1] # "name"
        /\ \E j \in 1..Len(new_data[n][2][2]) : EntryFails(new_data[n][2][2][j])

\* C21: add_data with validate=True on data that carries the identifier and
\* has an entry that fails a check of the Validator returns without raising
\* and leaves the collection unchanged.
C21_FailedValidationKeeps ==
    (Added /\ call.validate /\ ~Nameless /\ DataFails(call.new_data))
    => /\ ret.err = NoErr
       /\ ret.docs = <<"Failed validation">>
       /\ db = call.before

\* C21 witness: data of a stored name whose only failure is an unrecognised
\* unit was given with validate=True.
C21_Witness ==
    /\ Added
    /\ call.validate
    /\ Named(call.before, ItemsGet(call.new_data, "name")) # {}
    /\ \E n \in 1..Len(call.new_data) :
          /\ call.new_data[n][1] # "name"
          /\ \E j \in 1..Len(call.new_data[n][2][2]) :
                Get(call.new_data[n][2][2][j], "unit") = Str("penguin")
    /\ ret.docs = <<"Failed validation">>
    /\ db = call.before

\* C22: add_data with force=True on data of a stored name that fails the
\* validation is not ended by the validation: every field of the data is in
\* the stored document afterwards, unless the merge raised.
C22_ForceIgnoresValidation ==
    (/\ Added
     /\ call.force
     /\ DataFails(call.new_data)
     /\ Named(call.before, ItemsGet(call.new_data, "name")) # {})
    => /\ ret.docs # <<"Failed validation">>
       /\ ret.err = NoErr =>
             \A i \in Named(call.before, ItemsGet(call.new_data, "name")) :
                 \A n \in 1..Len(call.new_data) : call.new_data[n][1] \in DOMAIN db[i]

Validated == call.op = "validate"

\* C23: the validation of a document that carries a name no stored document
\* has, and whose entries all pass the checks, is true.
C23_UnmatchedOnlyWarns ==
    (/\ Validated
     /\ ItemsGet(call.doc, "name") # NoneV
     /\ Named(db, ItemsGet(call.doc, "name")) = {}
     /\ ~DataFails(call.doc))
    => /\ ret.err = NoErr
       /\ ret.docs[1] = Bool(TRUE)

\* What fails in one entry, read off the entry: no value and no
\* distribution; no reference the reference collection holds; a unit that
\* is given and not recognizable.
NoValue(elem) == "value" \notin DOMAIN elem /\ "distribution" \notin DOMAIN elem
NoReference(elem) ==
    \/ "reference" \notin DOMAIN elem
    \/ elem["reference"] = Str("")
    \/ \A n \in 1..Len(references) : references[n]["key"] # elem["reference"]
BadUnit(elem) ==
    /\ "unit" \in DOMAIN elem
    /\ elem["unit"] # Str("")
    /\ elem["unit"] \notin {Str(u) : u \in KnownUnits}

\* The failures of one entry of field k, in the order of the checks.
EntryFailures(k, elem, ref_check) ==
    (IF NoValue(elem) THEN << <<"missing values/distribution", k, elem>> >> ELSE <<>>)
    \o (IF ref_check /\ NoReference(elem)
        THEN << <<"missing references or it does not exist", k, elem>> >> ELSE <<>>)
    \o (IF BadUnit(elem) THEN << <<"invalid units", k, elem["unit"]>> >> ELSE <<>>)

\* The failures of every entry of every field but the name, in order.
DataFailures(items, ref_check) ==
    Flatten([n \in 1..Len(items) |->
                IF items[n][1] = "name" THEN <<>>
                ELSE Flatten([j \in 1..Len(items[n][2][2]) |->
                                 EntryFailures(items[n][1], items[n][2][2][j], ref_check)])])

IsError(message) == message[1] # "new/unmatched object"

\* C24: the validation of a document that carries a name reports every
\* failed check of every entry of every field but the name, in order (a
\* failure stops nothing), reports no reference when ref_check is off, and
\* is false when anything failed; for a stored name it is true exactly when
\* nothing failed.
C24_EveryFailureReported ==
    (Validated /\ ItemsGet(call.doc, "name") # NoneV)
    => /\ ret.err = NoErr
       /\ SelectSeq(ret.docs[2][2], IsError) = DataFailures(call.doc, call.ref_check)
       /\ (DataFailures(call.doc, call.ref_check) # <<>> => ret.docs[1] = Bool(FALSE))
       /\ (Named(db, ItemsGet(call.doc, "name")) # {}
           => ret.docs[1] = Bool(DataFailures(call.doc, call.ref_check) = <<>>))
       /\ (~call.ref_check
           => \A n \in 1..Len(ret.docs[2][2]) :
                 ret.docs[2][2][n][1] # "missing references or it does not exist")

\* A stored document validated with ref_check on, three of its entries
\* failing, four failures reported, one entry passing after them.
C24_Witness ==
    /\ Validated
    /\ call.ref_check
    /\ ret.err = NoErr
    /\ Named(db, ItemsGet(call.doc, "name")) # {}
    /\ Len(SelectSeq(ret.docs[2][2], IsError)) = 4
    /\ ret.docs[1] = Bool(FALSE)

\* The last entry of v that carries reference ref.
LastOf(v, ref) ==
    v[CHOOSE j \in 1..Len(v) :
         /\ v[j]["reference"] = ref
         /\ \A h \in (j + 1)..Len(v) : v[h]["reference"] # ref]

\* Entries new are entries old with the entries v merged as
\* update_value=True says: a stored entry whose reference an entry of v
\* carries is that entry of v, at the same position; every other stored
\* entry is as it was; the entries of v of a reference that was not stored
\* follow, and nothing else.
MergedUpdating(old, new, v) ==
    /\ Len(new) = Len(old) + Len(NewOf(v, old))
    /\ \A n \in 1..Len(old) :
          IF old[n]["reference"] \in RefsOf(v)
          THEN new[n] = LastOf(v, old[n]["reference"])
          ELSE new[n] = old[n]
    /\ SubSeq(new, Len(old) + 1, Len(new)) = NewOf(v, old)

\* C25: add_data with update_value=True that merged its data left every
\* field the document already had with the stored entries of a given
\* reference replaced in place by the given entry, the entries of other
\* references unchanged, and only the entries of new references appended.
C25_UpdateReplacesInPlace ==
    (Updated /\ call.update_value) =>
        \A i \in Named(call.before, ItemsGet(call.new_data, "name")) :
        \A n \in 1..Len(call.new_data) :
            (call.new_data[n][1] # "name" /\ call.new_data[n][1] \in DOMAIN call.before[i])
            => MergedUpdating(call.before[i][call.new_data[n][1]][2],
                              db[i][call.new_data[n][1]][2],
                              call.new_data[n][2][2])

\* C25 witness: a field that held entries of two references has the entry of
\* one replaced by a different entry and the other as it was, and still
\* holds two entries.
C25_Witness ==
    /\ Updated
    /\ call.update_value
    /\ \E i \in Named(call.before, ItemsGet(call.new_data, "name")) :
       \E n \in 1..Len(call.new_data) :
          LET k == call.new_data[n][1]
          IN  /\ k # "name"
              /\ k \in DOMAIN call.before[i]
              /\ Len(call.before[i][k][2]) = 2
              /\ Len(db[i][k][2]) = 2
              /\ db[i][k][2][1] = call.before[i][k][2][1]
              /\ db[i][k][2][2] # call.before[i][k][2][2]
              /\ db[i][k][2][2] = call.new_data[n][2][2][1]
              /\ call.before[i][k][2][1]["reference"] # call.before[i][k][2][2]["reference"]

\* C27: an add_data call that raises leaves the collection as it was before
\* the call.
C27_ErrorKeepsDocument ==
    (Added /\ ret.err # NoErr) => db = call.before

\* The references of the entries es are pairwise distinct.
DistinctRefs(es) ==
    \A a, b \in 1..Len(es) :
        (a # b /\ "reference" \in DOMAIN es[a] /\ "reference" \in DOMAIN es[b])
        => es[a]["reference"] # es[b]["reference"]

\* Every field of document doc holds entries of pairwise distinct references.
FieldsDistinct(doc) ==
    \A k \in DOMAIN doc : doc[k][1] = "arr" => DistinctRefs(doc[k][2])

\* C28: add_data leaves every field of the target document with entries of
\* pairwise distinct references when they were so before the call.
C28_ReferencesStayDistinct ==
    Added =>
        \A i \in Named(call.before, ItemsGet(call.new_data, "name")) :
            (i <= Len(db) /\ FieldsDistinct(call.before[i])) => FieldsDistinct(db[i])

\* The match specification is a mapping of more than one operator.
SeveralOperators(value) == value[1] = "dict" /\ Len(value[2]) > 1

\* The condition with a mapping of several operators on a dotted path
\* reduced to the first operator of the mapping.
FirstOperator(cond) ==
    IF Len(cond[1]) > 1 /\ SeveralOperators(cond[2])
    THEN <<cond[1], Dict(<<cond[2][2][1]>>)>>
    ELSE cond

FirstOperators(query) == [n \in 1..Len(query) |-> FirstOperator(query[n])]

\* C29: a query with a mapping of several operators on a dotted path gives
\* what the query with the mapping reduced to its first operator gives.
C29_OnlyFirstOperator ==
    (Queried /\ FirstOperators(call.query) # call.query)
    => ret = QueryDb(db, references, FirstOperators(call.query), call.embed_ref,
                     strictTruth)

\* C29 witness: ra.value {$gt: 1, $lt: MaxVal} returned a document all of
\* whose ra values are not below MaxVal.
C29_Witness ==
    /\ Queried
    /\ call.query = << <<KD("ra", "value"),
                         Dict(<< <<"$gt", Num(1)>>, <<"$lt", Num(MaxVal)>> >>)>> >>
    /\ ret.err = NoErr
    /\ \E n \in 1..Len(ret.idx) :
          \A j \in 1..Len(db[ret.idx[n]]["ra"][2]) :
              db[ret.idx[n]]["ra"][2][j]["value"][2] >= MaxVal

\* a == b of Python on two values of a JSON document: lists are equal when
\* they hold equal elements in the same order, entries when they hold equal
\* values under the same keys, and a number equals the float of its value.
RECURSIVE JsonEq(_, _)
JsonEq(a, b) ==
    CASE a[1] = "list" /\ b[1] = "list" ->
            /\ Len(a[2]) = Len(b[2])
            /\ \A i \in 1..Len(a[2]) :
                  /\ DOMAIN a[2][i] = DOMAIN b[2][i]
                  /\ \A f \in DOMAIN a[2][i] : JsonEq(a[2][i][f], b[2][i][f])
      [] a[1] \in {"numlist", "floatlist"} /\ b[1] \in {"numlist", "floatlist"} ->
            a[2] = b[2]
      [] OTHER -> a = b

ReverseFixed == call.op = "_recursive_json_reverse_fix"
LoadedAgain == call.op = "load_saved"

\* C26: _recursive_json_reverse_fix of _recursive_json_fix of a well-formed
\* JSON document has the fields of the document in their order, each equal
\* to that of the document, lists holding the same entries in the same
\* order and number; and a stored document that is saved and loaded again
\* leaves the collection as it was.
C26_JsonRoundTrip ==
    /\ ReverseFixed =>
          /\ Len(ret.docs[1]) = Len(call.doc)
          /\ \A n \in 1..Len(call.doc) :
                /\ ret.docs[1][n][1] = call.doc[n][1]
                /\ JsonEq(ret.docs[1][n][2], call.doc[n][2])
    /\ LoadedAgain => (ret.err = NoErr /\ db = call.before)

\* C26 witness: a document of three fields after the name, not in the order
\* the collection keeps, with lists of two entries and a distribution, was
\* fixed into arrays and reversed into lists.
C26_Witness ==
    /\ ReverseFixed
    /\ Len(call.doc) = 4
    /\ call.doc[2][1] = "dec"
    /\ call.fixed[2][2][1] = "arr"
    /\ call.fixed[2][2][2][1]["distribution"][1] = "numarr"
    /\ Len(ret.docs[1][2][2][2]) = 2
    /\ ret.docs[1][2][2][2][1]["distribution"][1] = "floatlist"

\* A stored document with a distribution was saved and loaded again into a
\* collection of two documents.
SavedAndLoadedAgain ==
    /\ LoadedAgain
    /\ Len(db) = 2
    /\ "dec" \in DOMAIN call.doc
    /\ call.doc["dec"][2][1]["distribution"][1] = "floatlist"
    /\ \E i \in 1..Len(db) :
          /\ db[i]["name"] = call.doc["name"]
          /\ db[i]["dec"][2][1]["distribution"][1] = "numarr"

=============================================================================
